---- MODULE Spec2Model ----
(***************************************************************************)
(* CryptoHub persistence core (src/src/utils/storageManager.js):           *)
(* StorageManager over a key/value medium, the PortfolioManager ledger     *)
(* (transaction log + holdings projection) and the AlertsManager.          *)
(*                                                                         *)
(* Numbers of the ledger (price, amount, averagePrice, totalCost) are JS    *)
(* numbers, IEEE 754 binary64: the arithmetic of the source (+, -, *, /,   *)
(* <=, >) rounds each result as the code's does.                           *)
(* Records carry the fields the operations compute with; the display       *)
(* fields (symbol, name, note) and the createdAt / updatedAt / triggeredAt *)
(* stamps, which no operation reads, are left out.                         *)
(***************************************************************************)
EXTENDS Integers, Sequences, FiniteSets, TLC

VARIABLES
    medium,     \* the underlying storage: full key -> stored item
    now,        \* Date.now()
    nextId,     \* source of the fresh ids handed out by generateId
    last,       \* the last call made on a manager: operation, arguments, result
    twin,       \* a second ledger driven by the same calls (sell prices differ)
    listeners,  \* StorageManager.listeners: key -> the callbacks subscribed, in order
    defaults    \* PreferencesManager.defaults: the object the constructor built

vars == <<medium, now, nextId, last, twin, listeners, defaults>>

(***************************************************************************)
(* Bounds of the model.                                                    *)
(***************************************************************************)
MaxTx == 3          \* addTransaction calls in one behaviour
MaxAlerts == 2      \* AlertsManager.add calls in one behaviour
MaxTime == 3         \* ticks of the clock in one behaviour
MaxClock == 2001     \* latest Date.now() of a behaviour of the cache, in ms
MaxLen == 5          \* longest price series given to an indicator
MaxCandles == 3      \* longest candle series given to calculateATR
MaxAssets == 4       \* most holdings given to calculateDiversificationScore
MaxDirect == 1       \* calls of import and of updateHoldings from outside

(***************************************************************************)
(* Exact rational arithmetic, for the samples of the indicators.           *)
(***************************************************************************)
Abs(x) == IF x < 0 THEN -x ELSE x

RECURSIVE Gcd(_, _)
Gcd(a, b) == IF b = 0 THEN a ELSE Gcd(b, a % b)

\* the rational n/d (d # 0) in lowest terms, denominator positive
Rat(n, d) ==
    LET g == Gcd(Abs(n), Abs(d))
        s == IF d < 0 THEN -1 ELSE 1
    IN  <<(s * n) \div g, (s * d) \div g>>

RInt(n) == <<n, 1>>
RZero == RInt(0)
RAdd(x, y) == Rat(x[1] * y[2] + y[1] * x[2], x[2] * y[2])
RSub(x, y) == Rat(x[1] * y[2] - y[1] * x[2], x[2] * y[2])
RMul(x, y) == Rat(x[1] * y[1], x[2] * y[2])
RDiv(x, y) == Rat(x[1] * y[2], x[2] * y[1])
RLeq(x, y) == x[1] * y[2] <= y[1] * x[2]
RGt(x, y) == x[1] * y[2] > y[1] * x[2]

(***************************************************************************)
(* JS numbers.  A number is an IEEE 754 binary64 value: NaN, an infinity   *)
(* or s * m * 2^e with s the sign, m a natural number below 2^53 and e an  *)
(* integer; it is kept with m odd (m = 0, e = 0 for zero), so that equal   *)
(* numbers are equal records.  m is a sequence of limbs, least             *)
(* significant first, each below Base.  Every operation is the exact       *)
(* result rounded to the nearest number, a tie to the even mantissa.  The  *)
(* exponent range (overflow to Infinity, subnormals) and the sign of zero  *)
(* are left out.                                                           *)
(***************************************************************************)
LimbBits == 15
Base == 2 ^ LimbBits
MantissaBits == 53

Limb(a, i) == IF i <= Len(a) THEN a[i] ELSE 0

RECURSIVE BTrim(_)
BTrim(a) ==
    IF a # <<>> /\ a[Len(a)] = 0 THEN BTrim(SubSeq(a, 1, Len(a) - 1)) ELSE a

RECURSIVE BFromInt(_)
BFromInt(n) == IF n = 0 THEN <<>> ELSE <<n % Base>> \o BFromInt(n \div Base)

RECURSIVE BToInt(_)
BToInt(a) == IF a = <<>> THEN 0 ELSE a[1] + Base * BToInt(Tail(a))

RECURSIVE BAddFrom(_, _, _, _)
BAddFrom(a, b, i, carry) ==
    IF i > Len(a) /\ i > Len(b) THEN (IF carry = 0 THEN <<>> ELSE <<carry>>)
    ELSE LET t == Limb(a, i) + Limb(b, i) + carry
         IN  <<t % Base>> \o BAddFrom(a, b, i + 1, t \div Base)

BAdd(a, b) == BAddFrom(a, b, 1, 0)

\* a - b for a >= b
RECURSIVE BSubFrom(_, _, _, _)
BSubFrom(a, b, i, borrow) ==
    IF i > Len(a) THEN <<>>
    ELSE LET t == Limb(a, i) - Limb(b, i) - borrow
         IN  <<IF t < 0 THEN t + Base ELSE t>>
                \o BSubFrom(a, b, i + 1, IF t < 0 THEN 1 ELSE 0)

BSub(a, b) == BTrim(BSubFrom(a, b, 1, 0))

\* -1, 0, 1 as a < b, a = b, a > b
RECURSIVE BCmpFrom(_, _, _)
BCmpFrom(a, b, i) ==
    IF i = 0 THEN 0
    ELSE IF a[i] < b[i] THEN -1
    ELSE IF a[i] > b[i] THEN 1
    ELSE BCmpFrom(a, b, i - 1)

BCmp(a, b) ==
    IF Len(a) < Len(b) THEN -1
    ELSE IF Len(a) > Len(b) THEN 1
    ELSE BCmpFrom(a, b, Len(a))

\* a * k for a limb k
RECURSIVE BMulLimbFrom(_, _, _, _)
BMulLimbFrom(a, k, i, carry) ==
    IF i > Len(a) THEN (IF carry = 0 THEN <<>> ELSE <<carry>>)
    ELSE LET t == a[i] * k + carry
         IN  <<t % Base>> \o BMulLimbFrom(a, k, i + 1, t \div Base)

BMulLimb(a, k) == IF k = 0 THEN <<>> ELSE BMulLimbFrom(a, k, 1, 0)

RECURSIVE BMulFrom(_, _, _)
BMulFrom(a, b, i) ==
    IF i > Len(b) THEN <<>>
    ELSE LET rest == BMulFrom(a, b, i + 1)
         IN  BAdd(BMulLimb(a, b[i]), IF rest = <<>> THEN <<>> ELSE <<0>> \o rest)

BMul(a, b) == BMulFrom(a, b, 1)

\* a * 2^k and floor(a / 2^k)
BShl(a, k) ==
    IF a = <<>> THEN <<>>
    ELSE [i \in 1..(k \div LimbBits) |-> 0] \o BMulLimb(a, 2 ^ (k % LimbBits))

BShr(a, k) ==
    LET n == Len(a) - (k \div LimbBits)
        p == 2 ^ (k % LimbBits)
        At(i) == Limb(a, i + (k \div LimbBits))
    IN  IF n <= 0 THEN <<>>
        ELSE BTrim([i \in 1..n |-> (At(i) \div p) + (At(i + 1) % p) * (Base \div p)])

BOdd(a) == a # <<>> /\ a[1] % 2 = 1

\* the number of bits of a limb n, and of its trailing zero bits (n > 0)
BitLength(n) == IF n = 0 THEN 0 ELSE CHOOSE b \in 1..LimbBits : 2 ^ (b - 1) <= n /\ n < 2 ^ b
TrailingZeros(n) == CHOOSE z \in 0..(LimbBits - 1) : n % (2 ^ z) = 0 /\ (n \div (2 ^ z)) % 2 = 1

BBitLen(a) == IF a = <<>> THEN 0 ELSE LimbBits * (Len(a) - 1) + BitLength(a[Len(a)])

BBit(a, j) == (Limb(a, (j \div LimbBits) + 1) \div (2 ^ (j % LimbBits))) % 2

\* one step of the long division by d, whose highest limb is at least
\* Base / 2: a limb is brought down to the quotient and remainder so far;
\* the quotient limb estimated from the highest limbs is at most 2 too large
BPush(limb, a) == IF a = <<>> /\ limb = 0 THEN <<>> ELSE <<limb>> \o a

BDivEstimate(d, r) ==
    LET estimate == (Limb(r, Len(d) + 1) * Base + Limb(r, Len(d))) \div d[Len(d)]
    IN  IF estimate > Base - 1 THEN Base - 1 ELSE estimate

BDivLower(d, r, c) == IF BCmp(BMulLimb(d, c), r) > 0 THEN c - 1 ELSE c

BDivLimb(d, r, q, c) == [q |-> BPush(c, q), r |-> BSub(r, BMulLimb(d, c))]

BDivBring(d, r, q) ==
    BDivLimb(d, r, q, BDivLower(d, r, BDivLower(d, r, BDivEstimate(d, r))))

BDivStep(d, limb, sofar) == BDivBring(d, BPush(limb, sofar.r), sofar.q)

\* the long division of the limbs i and above of n
RECURSIVE BDivFrom(_, _, _)
BDivFrom(n, d, i) ==
    IF i > Len(n) THEN [q |-> <<>>, r |-> <<>>]
    ELSE BDivStep(d, n[i], BDivFrom(n, d, i + 1))

\* floor(n / d) and n mod d, for d > 0
BDivUnshift(result, shift) == [q |-> result.q, r |-> BShr(result.r, shift)]

BDivShifted(n, d, shift) ==
    BDivUnshift(BDivFrom(BShl(n, shift), BShl(d, shift), 1), shift)

BDivMod(n, d) == BDivShifted(n, d, LimbBits - BitLength(d[Len(d)]))

NaN == [k |-> "nan", s |-> 1, m |-> <<>>, e |-> 0]
Infinity(s) == [k |-> "inf", s |-> s, m |-> <<>>, e |-> 0]
Zero == [k |-> "num", s |-> 1, m |-> <<>>, e |-> 0]

IsNaN(x) == x.k = "nan"
IsZero(x) == x.k = "num" /\ x.m = <<>>

\* s * m * 2^e with the trailing zero bits of m moved into e
RECURSIVE Canonical(_, _, _)
Canonical(s, m, e) ==
    IF m = <<>> THEN Zero
    ELSE IF m[1] = 0 THEN Canonical(s, Tail(m), e + LimbBits)
    ELSE [k |-> "num", s |-> s, m |-> BShr(m, TrailingZeros(m[1])),
          e |-> e + TrailingZeros(m[1])]

\* the number nearest to s * m * 2^e, a tie going to the even mantissa
\* q or q + 1 as the bits dropped are below or above a half (half < 0, > 0)
RoundedLimbs(q, half) ==
    IF half > 0 \/ (half = 0 /\ BOdd(q)) THEN BAdd(q, <<1>>) ELSE q

\* the bits dropped from m against a half of the last bit of q kept
DroppedHalf(m, q, drop) == BCmp(BSub(m, BShl(q, drop)), BShl(<<1>>, drop - 1))

Dropping(s, m, q, e, drop) ==
    Canonical(s, RoundedLimbs(q, DroppedHalf(m, q, drop)), e + drop)

NearestTo(s, m, e, drop) ==
    IF drop <= 0 THEN Canonical(s, m, e) ELSE Dropping(s, m, BShr(m, drop), e, drop)

Nearest(s, m, e) == NearestTo(s, m, e, BBitLen(m) - MantissaBits)

\* the integer n
Num(n) == Nearest(IF n < 0 THEN -1 ELSE 1, BFromInt(IF n < 0 THEN -n ELSE n), 0)

FNeg(x) == IF IsNaN(x) \/ IsZero(x) THEN x ELSE [x EXCEPT !.s = -x.s]

\* -1, 0, 1 as x < y, x = y, x > y, for x and y other than NaN
FCmp(x, y) ==
    LET Rank(z) == IF z.k = "inf" THEN 2 * z.s ELSE IF z.m = <<>> THEN 0 ELSE z.s
    IN  IF Rank(x) # Rank(y) THEN (IF Rank(x) < Rank(y) THEN -1 ELSE 1)
        ELSE IF x.k = "inf" \/ x.m = <<>> THEN 0
        ELSE LET e == IF x.e < y.e THEN x.e ELSE y.e
             IN  x.s * BCmp(BShl(x.m, x.e - e), BShl(y.m, y.e - e))

\* x <= y, x >= y, x > y: false when either is NaN
FLeq(x, y) == ~IsNaN(x) /\ ~IsNaN(y) /\ FCmp(x, y) <= 0
FGeq(x, y) == ~IsNaN(x) /\ ~IsNaN(y) /\ FCmp(x, y) >= 0
FGt(x, y) == ~IsNaN(x) /\ ~IsNaN(y) /\ FCmp(x, y) > 0

\* sa * a * 2^e + sb * b * 2^e
Aligned(sa, a, sb, b, e) ==
    IF sa = sb THEN Nearest(sa, BAdd(a, b), e)
    ELSE IF BCmp(a, b) >= 0 THEN Nearest(sa, BSub(a, b), e)
    ELSE Nearest(sb, BSub(b, a), e)

FAddAt(x, y, e) == Aligned(x.s, BShl(x.m, x.e - e), y.s, BShl(y.m, y.e - e), e)

\* x + y
FAdd(x, y) ==
    IF IsNaN(x) \/ IsNaN(y) THEN NaN
    ELSE IF x.k = "inf" THEN (IF y.k = "inf" /\ y.s # x.s THEN NaN ELSE x)
    ELSE IF y.k = "inf" THEN y
    ELSE IF x.m = <<>> THEN y
    ELSE IF y.m = <<>> THEN x
    ELSE FAddAt(x, y, IF x.e < y.e THEN x.e ELSE y.e)

\* x - y
FSub(x, y) == FAdd(x, FNeg(y))

\* x * y
FMul(x, y) ==
    IF IsNaN(x) \/ IsNaN(y) THEN NaN
    ELSE IF x.k = "inf" \/ y.k = "inf"
         THEN (IF IsZero(x) \/ IsZero(y) THEN NaN ELSE Infinity(x.s * y.s))
    ELSE Nearest(x.s * y.s, BMul(x.m, y.m), x.e + y.e)

Positive(n) == IF n > 0 THEN n ELSE 0

\* twice the quotient, its last bit set when there is a remainder
Sticky(qr) == BAdd(BAdd(qr.q, qr.q), IF qr.r = <<>> THEN <<>> ELSE <<1>>)

\* x / y with the mantissa of x shifted to give the quotient 55 bits
FDivAt(x, y, shift) ==
    Nearest(x.s * y.s, Sticky(BDivMod(BShl(x.m, shift), y.m)), x.e - y.e - shift - 1)

\* x / y
FDiv(x, y) ==
    IF IsNaN(x) \/ IsNaN(y) THEN NaN
    ELSE IF x.k = "inf" THEN (IF y.k = "inf" THEN NaN ELSE Infinity(x.s * y.s))
    ELSE IF y.k = "inf" THEN Zero
    ELSE IF y.m = <<>> THEN (IF x.m = <<>> THEN NaN ELSE Infinity(x.s * y.s))
    ELSE IF x.m = <<>> THEN Zero
    ELSE FDivAt(x, y, Positive(MantissaBits + 2 + BBitLen(y.m) - BBitLen(x.m)))

\* the literal n/d
Lit(n, d) == FDiv(Num(n), Num(d))

\* Math.abs(x)
FAbs(x) == IF IsNaN(x) THEN x ELSE [x EXCEPT !.s = 1]

\* Math.max(x, y) and Math.min(x, y)
FMax(x, y) == IF IsNaN(x) \/ IsNaN(y) THEN NaN ELSE IF FCmp(x, y) >= 0 THEN x ELSE y
FMin(x, y) == IF IsNaN(x) \/ IsNaN(y) THEN NaN ELSE IF FCmp(x, y) <= 0 THEN x ELSE y

\* floor(x + 0.5) for x = s * m * 2^e with e < 0, half and one in units of 2^e
FRoundAt(x, half, one) ==
    IF x.s = 1 THEN Nearest(1, BShr(BAdd(x.m, half), -x.e), 0)
    ELSE IF BCmp(x.m, half) <= 0 THEN Zero
    ELSE Nearest(-1, BShr(BSub(BAdd(BSub(x.m, half), one), <<1>>), -x.e), 0)

\* Math.round(x): floor(x + 0.5), exactly
FRound(x) ==
    IF x.k # "num" \/ x.e >= 0 THEN x
    ELSE FRoundAt(x, BShl(<<1>>, -x.e - 1), BShl(<<1>>, -x.e))

(***************************************************************************)
(* Array helpers (Array.prototype.findIndex / splice).                     *)
(***************************************************************************)
\* holdings.findIndex(h => h.coinId === coinId), 0 when there is none (JS: -1)
IndexOfCoin(s, coinId) ==
    IF \E i \in 1..Len(s) : s[i].coinId = coinId
    THEN CHOOSE i \in 1..Len(s) :
            s[i].coinId = coinId /\ \A j \in 1..(i - 1) : s[j].coinId # coinId
    ELSE 0

\* alerts.findIndex(a => a.id === id), 0 when there is none (JS: -1)
IndexOfId(s, id) ==
    IF \E i \in 1..Len(s) : s[i].id = id
    THEN CHOOSE i \in 1..Len(s) : s[i].id = id /\ \A j \in 1..(i - 1) : s[j].id # id
    ELSE 0

\* Array.prototype.splice(index, 1)
RemoveAt(s, i) == [j \in 1..(Len(s) - 1) |-> IF j < i THEN s[j] ELSE s[j + 1]]

(***************************************************************************)
(* StorageManager.                                                         *)
(***************************************************************************)
STORAGE_PREFIX == "cryptohub_"
STORAGE_VERSION == "1.0"

Null == -1      \* JS null / undefined of a numeric field (times are >= 0)

\* `${this.prefix}${key}`: a full key is the pair <<prefix, key name>>
getFullKey(key) == <<STORAGE_PREFIX, key>>

\* key.startsWith(this.prefix)
startsWithPrefix(fullKey) == fullKey[1] = STORAGE_PREFIX

EmptyMedium == [k \in {} |-> [parsable |-> FALSE]]

\* this.listeners = new Map()
NoListeners == [k \in {} |-> <<>>]

\* storage.setItem / storage.removeItem on the medium
setItem(m, fullKey, item) ==
    [k \in (DOMAIN m) \cup {fullKey} |-> IF k = fullKey THEN item ELSE m[k]]

removeItem(m, fullKey) == [k \in (DOMAIN m) \ {fullKey} |-> m[k]]

\* the envelope JSON.stringify writes; an unparsable item is [parsable |-> FALSE]
Envelope(value, t, expires) ==
    [parsable |-> TRUE, value |-> value, version |-> STORAGE_VERSION,
     timestamp |-> t, expires |-> expires]

\* item.expires && Date.now() > item.expires
IsExpired(item, t) == item.expires # Null /\ item.expires # 0 /\ t > item.expires

\* clearExpired: drops every namespace record that is expired or unparsable
clearExpired_WholeNamespace(m, t) ==
    [k \in {fk \in DOMAIN m : ~startsWithPrefix(fk)} |-> m[k]]

clearExpired_KeepsUnparsable(m, t) ==
    LET drop == {k \in DOMAIN m :
                    startsWithPrefix(k) /\ m[k].parsable /\ IsExpired(m[k], t)}
    IN  [k \in (DOMAIN m) \ drop |-> m[k]]

clearExpired(m, t) ==
    LET drop == {k \in DOMAIN m :
                    /\ startsWithPrefix(k)
                    /\ (~m[k].parsable \/ IsExpired(m[k], t))}
    IN  [k \in (DOMAIN m) \ drop |-> m[k]]

\* clearExpired: the counter it returns, one per removeItem
cleared(m, t) ==
    Cardinality({k \in DOMAIN m :
                    /\ startsWithPrefix(k)
                    /\ (~m[k].parsable \/ IsExpired(m[k], t))})

\* What the underlying setItem does on one call of set:
\*   "ok"          the write succeeds
\*   "retry_ok"    QuotaExceededError, the retry after clearExpired succeeds
\*   "retry_fail"  QuotaExceededError, the retry fails too
\*   "error"       setItem throws another error
WriteOutcomes == {"ok", "retry_ok", "retry_fail", "error"}

\* set(key, value, {ttl}) at time t: the medium afterwards
SetMedium_WritesDespiteFailure(m, key, value, ttl, t, outcome) ==
    setItem(m, getFullKey(key), Envelope(value, t, Null))

SetMedium_RetryKeepsTtl(m, key, value, ttl, t, outcome) ==
    CASE outcome \in {"ok", "retry_ok"} ->
            setItem(IF outcome = "ok" THEN m ELSE clearExpired(m, t), getFullKey(key),
                    Envelope(value, t, IF ttl # Null /\ ttl # 0 THEN t + ttl ELSE Null))
      [] outcome = "retry_fail" -> clearExpired(m, t)
      [] OTHER -> m

SetMedium(m, key, value, ttl, t, outcome) ==
    CASE outcome = "ok" ->
            setItem(m, getFullKey(key),
                    Envelope(value, t, IF ttl # Null /\ ttl # 0 THEN t + ttl ELSE Null))
      [] outcome = "retry_ok" ->
            setItem(clearExpired(m, t), getFullKey(key), Envelope(value, t, Null))
      [] outcome = "retry_fail" -> clearExpired(m, t)
      [] OTHER -> m

\* set(...): its return value
SetReturns(outcome) == outcome \in {"ok", "retry_ok"}

\* get(key, defaultValue) at time t: the value returned
GetValue(m, key, defaultValue, t) ==
    LET fk == getFullKey(key) IN
    IF fk \notin DOMAIN m THEN defaultValue
    ELSE IF ~m[fk].parsable THEN defaultValue
    ELSE IF IsExpired(m[fk], t) THEN defaultValue
    ELSE IF m[fk].version # STORAGE_VERSION THEN defaultValue
    ELSE m[fk].value

\* get(key, defaultValue) at time t: the medium afterwards (invalid reads purge)
GetMedium_KeepsInvalid(m, key, t) == m

GetMedium(m, key, t) ==
    LET fk == getFullKey(key) IN
    IF fk \notin DOMAIN m THEN m
    ELSE IF ~m[fk].parsable THEN m
    ELSE IF IsExpired(m[fk], t) \/ m[fk].version # STORAGE_VERSION
         THEN removeItem(m, fk)
    ELSE m

\* remove(key): the medium afterwards (removeItem does not throw)
RemoveMedium(m, key) == removeItem(m, getFullKey(key))

\* clear(): removeItem on every key that starts with the prefix
clear_WholeMedium(m) == EmptyMedium

clear(m) == [k \in {fk \in DOMAIN m : ~startsWithPrefix(fk)} |-> m[k]]

\* keys(): the namespace keys with the prefix stripped
keys(m) == {fk[2] : fk \in {k \in DOMAIN m : startsWithPrefix(k)}}

\* Callbacks are named; those of ThrowingCallbacks throw when they are called.
ThrowingCallbacks == {"onThrow"}

\* subscribe(key, callback): listeners.get(key).add(callback), a Set that
\* keeps insertion order and ignores a callback it already holds
subscribe(ls, key, callback) ==
    LET cur == IF key \in DOMAIN ls THEN ls[key] ELSE <<>>
        nxt == IF \E i \in 1..Len(cur) : cur[i] = callback
               THEN cur ELSE Append(cur, callback)
    IN  [k \in (DOMAIN ls) \cup {key} |-> IF k = key THEN nxt ELSE ls[k]]

\* notifyListeners(key, value): the calls it makes, in order; a throw of a
\* callback is caught inside the forEach
notifyListeners_StopsAtThrow(ls, key, value) ==
    IF key \notin DOMAIN ls THEN <<>>
    ELSE LET cbs == ls[key]
             n == Len(cbs)
             stop == IF \E i \in 1..n : cbs[i] \in ThrowingCallbacks
                     THEN CHOOSE i \in 1..n :
                            /\ cbs[i] \in ThrowingCallbacks
                            /\ \A j \in 1..(i - 1) : cbs[j] \notin ThrowingCallbacks
                     ELSE n
         IN  [i \in 1..stop |-> [callback |-> cbs[i], value |-> value, key |-> key,
                                 threw |-> cbs[i] \in ThrowingCallbacks]]

notifyListeners(ls, key, value) ==
    IF key \notin DOMAIN ls THEN <<>>
    ELSE [i \in 1..Len(ls[key]) |->
            [callback |-> ls[key][i], value |-> value, key |-> key,
             threw |-> ls[key][i] \in ThrowingCallbacks]]

\* the value listeners receive on a removal
NullValue == "null"

\* set(key, value): the listener calls it makes
SetCalls(ls, key, value, outcome) ==
    IF outcome = "ok" THEN notifyListeners(ls, key, value) ELSE <<>>

\* remove(key): the listener calls it makes
RemoveCalls(ls, key) == notifyListeners(ls, key, NullValue)

(***************************************************************************)
(* PortfolioManager: the transaction log and the holdings projection.      *)
(***************************************************************************)
PORTFOLIO == "portfolio"
TRANSACTIONS == "transactions"

\* getHoldings / getTransactions: the value read and the medium after the read
getHoldings(m, t) == GetValue(m, PORTFOLIO, <<>>, t)
getTransactions(m, t) == GetValue(m, TRANSACTIONS, <<>>, t)

\* averagePrice of an existing holding after a buy: totalCost / totalAmount
BuyAveragePrice_Unweighted(existing, tx) ==
    FDiv(FAdd(existing.averagePrice, tx.price), Num(2))

BuyAveragePrice_CostWithoutAmount(existing, tx) ==
    FDiv(FAdd(existing.averagePrice, FMul(tx.price, tx.amount)),
         FAdd(existing.amount, tx.amount))

BuyAveragePrice(existing, tx) ==
    LET totalCost == FAdd(FMul(existing.averagePrice, existing.amount),
                          FMul(tx.price, tx.amount))
        totalAmount == FAdd(existing.amount, tx.amount)
    IN  FDiv(totalCost, totalAmount)

\* newAmount <= 0: the sell removes the holding
SellExhausts_Strict(newAmount) == ~FLeq(Zero, newAmount)

SellExhausts(newAmount) == FLeq(newAmount, Zero)

\* the holdings array updateHoldings computes from the stored one
UpdatedHoldings_AlwaysPushes(holdings, tx) ==
    IF tx.type = "buy"
    THEN Append(holdings, [coinId |-> tx.coinId, amount |-> tx.amount,
                           averagePrice |-> tx.price])
    ELSE holdings

UpdatedHoldings_SellOpensShort(holdings, tx) ==
    LET existingIndex == IndexOfCoin(holdings, tx.coinId)
    IN
    IF tx.type = "buy" THEN
        IF existingIndex > 0 THEN
            LET existing == holdings[existingIndex]
            IN  [holdings EXCEPT ![existingIndex] =
                    [existing EXCEPT !.amount = FAdd(existing.amount, tx.amount),
                                     !.averagePrice = BuyAveragePrice(existing, tx)]]
        ELSE Append(holdings, [coinId |-> tx.coinId, amount |-> tx.amount,
                               averagePrice |-> tx.price])
    ELSE IF tx.type = "sell" /\ existingIndex > 0 THEN
        LET existing == holdings[existingIndex]
            newAmount == FSub(existing.amount, tx.amount)
        IN  IF SellExhausts(newAmount)
            THEN RemoveAt(holdings, existingIndex)
            ELSE [holdings EXCEPT ![existingIndex] = [existing EXCEPT !.amount = newAmount]]
    ELSE IF tx.type = "sell" THEN
        Append(holdings, [coinId |-> tx.coinId, amount |-> FSub(Zero, tx.amount),
                          averagePrice |-> tx.price])
    ELSE holdings

UpdatedHoldings(holdings, tx) ==
    LET existingIndex == IndexOfCoin(holdings, tx.coinId)
    IN
    IF tx.type = "buy" THEN
        IF existingIndex > 0 THEN
            LET existing == holdings[existingIndex]
            IN  [holdings EXCEPT ![existingIndex] =
                    [existing EXCEPT !.amount = FAdd(existing.amount, tx.amount),
                                     !.averagePrice = BuyAveragePrice(existing, tx)]]
        ELSE Append(holdings, [coinId |-> tx.coinId, amount |-> tx.amount,
                               averagePrice |-> tx.price])
    ELSE IF tx.type = "sell" /\ existingIndex > 0 THEN
        LET existing == holdings[existingIndex]
            newAmount == FSub(existing.amount, tx.amount)
        IN  IF SellExhausts(newAmount)
            THEN RemoveAt(holdings, existingIndex)
            ELSE [holdings EXCEPT ![existingIndex] = [existing EXCEPT !.amount = newAmount]]
    ELSE holdings

\* updateHoldings(transaction): the medium afterwards
updateHoldings(m, tx, t, outcome) ==
    LET holdings == getHoldings(m, t)
        m1 == GetMedium(m, PORTFOLIO, t)
    IN  SetMedium(m1, PORTFOLIO, UpdatedHoldings(holdings, tx), Null, t, outcome)

\* addTransaction(transaction): the medium afterwards; id is generateId()
addTransaction(m, tx, id, t, o1, o2) ==
    LET transactions == getTransactions(m, t)
        m1 == GetMedium(m, TRANSACTIONS, t)
        newTransaction == [id |-> id, coinId |-> tx.coinId, type |-> tx.type,
                           price |-> tx.price, amount |-> tx.amount]
        m2 == SetMedium(m1, TRANSACTIONS, Append(transactions, newTransaction),
                        Null, t, o1)
    IN  updateHoldings(m2, tx, t, o2)

\* the loop of recalculateHoldings: the Map (in insertion order) after txs
RECURSIVE RecalcMap(_, _)
RecalcMap(txs, holdings) ==
    IF txs = <<>> THEN holdings
    ELSE
        LET tx == Head(txs)
            i == IndexOfCoin(holdings, tx.coinId)
            existing == IF i > 0 THEN holdings[i]
                        ELSE [coinId |-> tx.coinId, amount |-> Zero, totalCost |-> Zero]
            updated ==
                IF tx.type = "buy"
                THEN [existing EXCEPT !.amount = FAdd(@, tx.amount),
                                      !.totalCost = FAdd(@, FMul(tx.price, tx.amount))]
                ELSE IF tx.type = "sell"
                THEN [existing EXCEPT !.amount = FSub(@, tx.amount),
                                      !.totalCost = FSub(@, FMul(tx.price, tx.amount))]
                ELSE existing
        IN  RecalcMap(Tail(txs),
                      IF i > 0 THEN [holdings EXCEPT ![i] = updated]
                      ELSE Append(holdings, updated))

\* the holdingsArray recalculateHoldings stores for a transaction log
RecalculatedHoldings(transactions) ==
    LET Held(h) == FGt(h.amount, Zero)
        kept == SelectSeq(RecalcMap(transactions, <<>>), Held)
    IN  [i \in 1..Len(kept) |->
            [coinId |-> kept[i].coinId, amount |-> kept[i].amount,
             totalCost |-> kept[i].totalCost,
             averagePrice |-> FDiv(kept[i].totalCost, kept[i].amount)]]

\* recalculateHoldings(): the medium afterwards
recalculateHoldings(m, t, outcome) ==
    LET transactions == getTransactions(m, t)
        m1 == GetMedium(m, TRANSACTIONS, t)
    IN  SetMedium(m1, PORTFOLIO, RecalculatedHoldings(transactions), Null, t, outcome)

\* removeTransaction(transactionId): the medium afterwards
removeTransaction_ByPosition(m, transactionId, t, o1, o2) ==
    LET all == getTransactions(m, t)
        transactions == IF transactionId \in 1..Len(all)
                        THEN RemoveAt(all, transactionId) ELSE all
        m1 == GetMedium(m, TRANSACTIONS, t)
        m2 == SetMedium(m1, TRANSACTIONS, transactions, Null, t, o1)
    IN  recalculateHoldings(m2, t, o2)

removeTransaction(m, transactionId, t, o1, o2) ==
    LET Other(tx) == tx.id # transactionId
        transactions == SelectSeq(getTransactions(m, t), Other)
        m1 == GetMedium(m, TRANSACTIONS, t)
        m2 == SetMedium(m1, TRANSACTIONS, transactions, Null, t, o1)
    IN  recalculateHoldings(m2, t, o2)

\* clear(): [] is stored for the holdings and for the log
PortfolioClearMedium(m, t, o1, o2) ==
    LET m1 == SetMedium(m, PORTFOLIO, <<>>, Null, t, o1)
    IN  SetMedium(m1, TRANSACTIONS, <<>>, Null, t, o2)

\* import(data): data.holdings and data.transactions are stored as given,
\* each only when data has it (an array, empty or not, is truthy)
import(m, data, t, o1, o2) ==
    LET m1 == IF "holdings" \in DOMAIN data
              THEN SetMedium(m, PORTFOLIO, data.holdings, Null, t, o1) ELSE m
    IN  IF "transactions" \in DOMAIN data
        THEN SetMedium(m1, TRANSACTIONS, data.transactions, Null, t, o2) ELSE m1

(***************************************************************************)
(* AlertsManager.  An alert is [id, coinId, condition, targetPrice, active, *)
(* triggered]; prices is the snapshot handed to checkAlerts, a function    *)
(* from the coins it knows to their price.                                 *)
(***************************************************************************)
ALERTS == "alerts"

getAll(m, t) == GetValue(m, ALERTS, <<>>, t)

\* getActive: this.getAll().filter(alert => alert.active)
getActive_Unfiltered(m, t) == getAll(m, t)

getActive(m, t) ==
    LET IsActive(alert) == alert.active
    IN  SelectSeq(getAll(m, t), IsActive)

\* add(alert): the alert created, and the medium afterwards
newAlert(alert, id) ==
    [id |-> id, coinId |-> alert.coinId, condition |-> alert.condition,
     targetPrice |-> alert.targetPrice, active |-> TRUE, triggered |-> FALSE]

add(m, alert, id, t, outcome) ==
    SetMedium(GetMedium(m, ALERTS, t), ALERTS,
              Append(getAll(m, t), newAlert(alert, id)), Null, t, outcome)

\* { ...alerts[index], ...updates }
Merge(alert, updates) ==
    [f \in (DOMAIN alert) \cup (DOMAIN updates) |->
        IF f \in DOMAIN updates THEN updates[f] ELSE alert[f]]

\* update(alertId, updates): the medium afterwards
update(m, alertId, updates, t, outcome) ==
    LET alerts == getAll(m, t)
        index == IndexOfId(alerts, alertId)
    IN  IF index > 0
        THEN SetMedium(GetMedium(m, ALERTS, t), ALERTS,
                       [alerts EXCEPT ![index] = Merge(alerts[index], updates)],
                       Null, t, outcome)
        ELSE GetMedium(m, ALERTS, t)

\* update(alertId, updates): its return value
updateReturns(m, alertId, t) == \E i \in 1..Len(getAll(m, t)) : getAll(m, t)[i].id = alertId

\* remove(alertId): the medium afterwards
remove(m, alertId, t, outcome) ==
    LET Other(a) == a.id # alertId
    IN  SetMedium(GetMedium(m, ALERTS, t), ALERTS, SelectSeq(getAll(m, t), Other),
                  Null, t, outcome)

\* toggle(alertId): the medium afterwards
toggle(m, alertId, t, outcome) ==
    LET alerts == getAll(m, t)
        index == IndexOfId(alerts, alertId)
    IN  IF index > 0
        THEN SetMedium(GetMedium(m, ALERTS, t), ALERTS,
                       [alerts EXCEPT ![index].active = ~alerts[index].active],
                       Null, t, outcome)
        ELSE GetMedium(m, ALERTS, t)

\* toggle(alertId): its return value (the new status, false for an unknown id)
toggleReturns(m, alertId, t) ==
    LET alerts == getAll(m, t)
        index == IndexOfId(alerts, alertId)
    IN  index > 0 /\ ~alerts[index].active

\* the condition chain of checkAlerts for one alert and its current price
isTriggered_UnknownAsAbove(alert, currentPrice) ==
    \/ alert.condition \notin {"below", "percent_change"}
            /\ currentPrice >= alert.targetPrice
    \/ alert.condition = "below" /\ currentPrice <= alert.targetPrice

isTriggered_PercentChangeFires(alert, currentPrice) ==
    \/ alert.condition = "above" /\ currentPrice >= alert.targetPrice
    \/ alert.condition = "below" /\ currentPrice <= alert.targetPrice
    \/ alert.condition = "percent_change"

isTriggered(alert, currentPrice) ==
    \/ alert.condition = "above" /\ currentPrice >= alert.targetPrice
    \/ alert.condition = "below" /\ currentPrice <= alert.targetPrice

\* !currentPrice: the coin is not in the snapshot, or its price is 0
NoPrice(prices, coinId) == coinId \notin DOMAIN prices \/ prices[coinId] = 0

\* the loop of checkAlerts over the active alerts read at its start; oc gives
\* the outcome of the storage write of the update of each alert id
RECURSIVE CheckLoop_StopsAtMissingPrice(_, _, _, _, _, _)
CheckLoop_StopsAtMissingPrice(alerts, m, triggered, prices, t, oc) ==
    IF alerts = <<>> THEN [medium |-> m, triggered |-> triggered]
    ELSE
        LET alert == Head(alerts) IN
        IF NoPrice(prices, alert.coinId)
        THEN [medium |-> m, triggered |-> triggered]
        ELSE IF isTriggered(alert, prices[alert.coinId])
        THEN CheckLoop_StopsAtMissingPrice(Tail(alerts),
                       update(m, alert.id, [triggered |-> TRUE, active |-> FALSE],
                              t, oc[alert.id]),
                       Append(triggered,
                              [alert |-> alert, currentPrice |-> prices[alert.coinId]]),
                       prices, t, oc)
        ELSE CheckLoop_StopsAtMissingPrice(Tail(alerts), m, triggered, prices, t, oc)

RECURSIVE CheckLoop(_, _, _, _, _, _)
CheckLoop(alerts, m, triggered, prices, t, oc) ==
    IF alerts = <<>> THEN [medium |-> m, triggered |-> triggered]
    ELSE
        LET alert == Head(alerts) IN
        IF NoPrice(prices, alert.coinId)
        THEN CheckLoop(Tail(alerts), m, triggered, prices, t, oc)
        ELSE IF isTriggered(alert, prices[alert.coinId])
        THEN CheckLoop(Tail(alerts),
                       update(m, alert.id, [triggered |-> TRUE, active |-> FALSE],
                              t, oc[alert.id]),
                       Append(triggered,
                              [alert |-> alert, currentPrice |-> prices[alert.coinId]]),
                       prices, t, oc)
        ELSE CheckLoop(Tail(alerts), m, triggered, prices, t, oc)

\* checkAlerts(prices): [medium |-> the medium afterwards, triggered |-> the result]
checkAlerts(m, prices, t, oc) ==
    CheckLoop(getActive(m, t), GetMedium(m, ALERTS, t), <<>>, prices, t, oc)

(***************************************************************************)
(* PreferencesManager.  A preferences object is a function from its keys   *)
(* to values; a nested object is a function again.  defaults is the one    *)
(* object the constructor built; getAll copies only its top level, so a    *)
(* nested object that the stored preferences do not replace is the very    *)
(* object of defaults.                                                     *)
(***************************************************************************)
USER_SETTINGS == "user_settings"

\* this.defaults as the constructor builds it
DEFAULTS ==
    [theme |-> "dark", currency |-> "USD",
     notifications |-> [priceAlerts |-> TRUE, newsAlerts |-> FALSE]]

\* the {} default of this.storage.get(this.key, {})
NoPreferences == [k \in {} |-> "dark"]

\* key.split('.')
split(key) ==
    CASE key = "theme" -> <<"theme">>
      [] key = "currency" -> <<"currency">>
      [] key = "notifications.priceAlerts" -> <<"notifications", "priceAlerts">>
      [] key = "notifications.newsAlerts" -> <<"notifications", "newsAlerts">>
      [] OTHER -> <<key>>

\* { ...a, ...b }
Spread(a, b) ==
    [k \in (DOMAIN a) \cup (DOMAIN b) |-> IF k \in DOMAIN b THEN b[k] ELSE a[k]]

\* obj[k] = value
Assign(obj, k, value) ==
    [j \in (DOMAIN obj) \cup {k} |-> IF j = k THEN value ELSE obj[j]]

Stored(m, t) == GetValue(m, USER_SETTINGS, NoPreferences, t)

\* getAll(): { ...this.defaults, ...stored }
PreferencesGetAll(d, m, t) == Spread(d, Stored(m, t))

\* set(key, value) for a key of one or two parts: the preferences it stores
PreferencesSetPrefs(d, m, key, value, t) ==
    LET prefs == PreferencesGetAll(d, m, t)
        ks == split(key)
    IN  IF Len(ks) = 1 THEN Assign(prefs, ks[1], value)
        ELSE LET current == IF ks[1] \in DOMAIN prefs THEN prefs[ks[1]]
                            ELSE NoPreferences
             IN  Assign(prefs, ks[1], Assign(current, ks[2], value))

\* set(key, value): this.defaults afterwards.  current[...] = value writes
\* into the object of defaults when prefs[keys[0]] was taken from it
PreferencesSetDefaults(d, m, key, value, t) ==
    LET ks == split(key)
    IN  IF Len(ks) = 2 /\ ks[1] \in DOMAIN d /\ ks[1] \notin DOMAIN Stored(m, t)
        THEN Assign(d, ks[1], Assign(d[ks[1]], ks[2], value))
        ELSE d

\* set(key, value): the medium afterwards
PreferencesSetMedium(d, m, key, value, t, outcome) ==
    SetMedium(GetMedium(m, USER_SETTINGS, t), USER_SETTINGS,
              PreferencesSetPrefs(d, m, key, value, t), Null, t, outcome)

\* source[key] instanceof Object && !Array.isArray(source[key]): of the
\* preferences modelled, the value under notifications is the nested object
IsObjectKey(key) == key = "notifications"

\* deepMerge(target, source): a copy of target in which the keys of source
\* are replaced, the nested objects merged into target[key] || {}
RECURSIVE deepMerge(_, _)
deepMerge(target, source) ==
    [key \in (DOMAIN target) \cup (DOMAIN source) |->
        IF key \notin DOMAIN source THEN target[key]
        ELSE IF IsObjectKey(key)
             THEN deepMerge(IF key \in DOMAIN target THEN target[key]
                            ELSE NoPreferences, source[key])
             ELSE source[key]]

\* setMany(preferences): the medium afterwards
setMany(d, m, preferences, t, outcome) ==
    SetMedium(GetMedium(m, USER_SETTINGS, t), USER_SETTINGS,
              deepMerge(PreferencesGetAll(d, m, t), preferences), Null, t, outcome)

\* reset(): this.storage.set(this.key, this.defaults)
reset(d, m, t, outcome) == SetMedium(m, USER_SETTINGS, d, Null, t, outcome)

(***************************************************************************)
(* Inputs of the ledger.                                                   *)
(***************************************************************************)
Coins == {"btc", "eth"}
TxTypes == {"buy", "sell"}
Prices == {Num(10000), Num(20000)}
Amounts == {Lit(1, 2), Num(1)}

\* the transactions added to the ledger: every fill of btc, one fill of eth
Transactions ==
    [coinId : {"btc"}, type : TxTypes, price : Prices, amount : Amounts]
    \cup [coinId : {"eth"}, type : TxTypes, price : {Num(20000)}, amount : {Num(1)}]

\* buys of btc in amounts that no double holds exactly
FillAmounts == {Lit(1, 10), Lit(2, 10), Lit(3, 10)}
Fills == [coinId : {"btc"}, type : {"buy"}, price : Prices, amount : FillAmounts]

\* buys and sells of btc in those amounts at one price, and a buy of eth
DecimalTransactions ==
    [coinId : {"btc"}, type : TxTypes, price : {Num(10000)}, amount : FillAmounts]
    \cup [coinId : {"eth"}, type : {"buy"}, price : {Num(20000)}, amount : {Num(1)}]

\* the transactions added to the ledger that is also written from outside
PortfolioTransactions ==
    [coinId : Coins, type : TxTypes, price : {Num(10000)}, amount : {Num(1)}]

\* the transactions handed to updateHoldings from outside
DirectTransactions ==
    [coinId : {"btc"}, type : TxTypes, price : {Num(20000)}, amount : {Num(1)}]

\* the data handed to import: an export of another ledger, whose one
\* transaction has an id (0) that generateId gives to no transaction here
ImportedHoldings ==
    <<[coinId |-> "eth", amount |-> Num(1), averagePrice |-> Num(20000)]>>
ImportedTransactions ==
    <<[id |-> 0, coinId |-> "eth", type |-> "buy", price |-> Num(20000),
       amount |-> Num(1)]>>
ImportData ==
    {[holdings |-> ImportedHoldings],
     [transactions |-> ImportedTransactions],
     [holdings |-> ImportedHoldings, transactions |-> ImportedTransactions]}

\* the accounting fields of a holdings array, as a set (order left out)
View(holdings) ==
    {[coinId |-> holdings[i].coinId, amount |-> holdings[i].amount,
      averagePrice |-> holdings[i].averagePrice] : i \in 1..Len(holdings)}

(***************************************************************************)
(* Initial state: an empty medium, nothing called yet.                     *)
(***************************************************************************)
Init ==
    /\ medium = EmptyMedium
    /\ now = 0
    /\ nextId = 1
    /\ last = [op |-> "none", clean |-> TRUE, direct |-> 0]
    /\ twin = EmptyMedium
    /\ listeners = NoListeners
    /\ defaults = DEFAULTS

(***************************************************************************)
(* The calls on the portfolio singleton.  `last` records the call: its     *)
(* arguments, the log and holdings read before an addTransaction, the      *)
(* value returned; clean says that so far every call was an addTransaction,*)
(* direct counts the calls of import and of updateHoldings from outside,   *)
(* which write the holdings or the log without going through the ledger.   *)
(***************************************************************************)
AddTransaction ==
    \E tx \in Transactions :
        /\ nextId <= MaxTx
        /\ medium' = addTransaction(medium, tx, nextId, now, "ok", "ok")
        /\ nextId' = nextId + 1
        /\ last' = [op |-> "addTransaction", tx |-> tx, id |-> nextId,
                    preLog |-> getTransactions(medium, now),
                    preHoldings |-> getHoldings(medium, now),
                    ret |-> TRUE, clean |-> last.clean, direct |-> last.direct]
        /\ UNCHANGED <<now, twin, listeners, defaults>>

RemoveTransaction ==
    \E id \in 1..MaxTx :
        /\ medium' = removeTransaction(medium, id, now, "ok", "ok")
        /\ last' = [op |-> "removeTransaction", id |-> id,
                    ret |-> TRUE, clean |-> FALSE, direct |-> last.direct]
        /\ UNCHANGED <<now, nextId, twin, listeners, defaults>>

RecalculateHoldings ==
    /\ medium' = recalculateHoldings(medium, now, "ok")
    /\ last' = [op |-> "recalculateHoldings",
                clean |-> FALSE, direct |-> last.direct]
    /\ UNCHANGED <<now, nextId, twin, listeners, defaults>>

\* updateHoldings(transaction) called from outside: the log is not written
UpdateHoldings ==
    \E tx \in DirectTransactions :
        /\ last.direct < MaxDirect
        /\ medium' = updateHoldings(medium, tx, now, "ok")
        /\ last' = [op |-> "updateHoldings", tx |-> tx,
                    clean |-> FALSE, direct |-> last.direct + 1]
        /\ UNCHANGED <<now, nextId, twin, listeners, defaults>>

PortfolioClear ==
    /\ medium' = PortfolioClearMedium(medium, now, "ok", "ok")
    /\ last' = [op |-> "clear", ret |-> TRUE, clean |-> FALSE,
                direct |-> last.direct]
    /\ UNCHANGED <<now, nextId, twin, listeners, defaults>>

PortfolioImport ==
    \E data \in ImportData :
        /\ last.direct < MaxDirect
        /\ medium' = import(medium, data, now, "ok", "ok")
        /\ last' = [op |-> "import", data |-> data, ret |-> TRUE,
                    clean |-> FALSE, direct |-> last.direct + 1]
        /\ UNCHANGED <<now, nextId, twin, listeners, defaults>>

Next ==
    \/ AddTransaction
    \/ RemoveTransaction
    \/ RecalculateHoldings

Spec == Init /\ [][Next]_vars

(***************************************************************************)
(* Every call that writes the portfolio: besides the three above, clear,   *)
(* import and updateHoldings called from outside.  The transactions added  *)
(* are those of one price and one amount.                                  *)
(***************************************************************************)
PortfolioAddTransaction ==
    \E tx \in PortfolioTransactions :
        /\ nextId <= MaxTx
        /\ medium' = addTransaction(medium, tx, nextId, now, "ok", "ok")
        /\ nextId' = nextId + 1
        /\ last' = [op |-> "addTransaction", tx |-> tx, id |-> nextId,
                    ret |-> TRUE, clean |-> last.clean, direct |-> last.direct]
        /\ UNCHANGED <<now, twin, listeners, defaults>>

PortfolioRemoveTransaction ==
    \E id \in 0..MaxTx :
        /\ medium' = removeTransaction(medium, id, now, "ok", "ok")
        /\ last' = [op |-> "removeTransaction", id |-> id,
                    ret |-> TRUE, clean |-> FALSE, direct |-> last.direct]
        /\ UNCHANGED <<now, nextId, twin, listeners, defaults>>

NextPortfolio ==
    \/ PortfolioAddTransaction
    \/ PortfolioRemoveTransaction
    \/ RecalculateHoldings
    \/ UpdateHoldings
    \/ PortfolioClear
    \/ PortfolioImport

SpecPortfolio == Init /\ [][NextPortfolio]_vars

(***************************************************************************)
(* The ledger on a medium whose writes may fail: every storage.set of      *)
(* addTransaction and recalculateHoldings takes any of the WriteOutcomes.  *)
(***************************************************************************)
FaultTransactions ==
    [coinId : {"btc"}, type : TxTypes, price : {Num(10000)}, amount : Amounts]

FaultyAddTransaction ==
    \E tx \in FaultTransactions, o1 \in WriteOutcomes, o2 \in WriteOutcomes :
        /\ nextId <= MaxTx
        /\ medium' = addTransaction(medium, tx, nextId, now, o1, o2)
        /\ nextId' = nextId + 1
        /\ last' = [op |-> "addTransaction", tx |-> tx, id |-> nextId,
                    o1 |-> o1, o2 |-> o2,
                    preLog |-> getTransactions(medium, now),
                    preHoldings |-> getHoldings(medium, now),
                    ret |-> TRUE, clean |-> FALSE]
        /\ UNCHANGED <<now, twin, listeners, defaults>>

FaultyRecalculateHoldings ==
    \E o \in WriteOutcomes :
        /\ medium' = recalculateHoldings(medium, now, o)
        /\ last' = [op |-> "recalculateHoldings", o2 |-> o,
                    preLog |-> getTransactions(medium, now),
                    preHoldings |-> getHoldings(medium, now),
                    clean |-> FALSE]
        /\ UNCHANGED <<now, nextId, twin, listeners, defaults>>

NextFault ==
    \/ FaultyAddTransaction
    \/ FaultyRecalculateHoldings

SpecFault == Init /\ [][NextFault]_vars

(***************************************************************************)
(* Two ledgers driven by the same calls; the price of a sell is chosen     *)
(* separately for each of them.                                            *)
(***************************************************************************)
TwinAddTransaction ==
    \E tx \in Transactions, price2 \in Prices :
        /\ nextId <= MaxTx
        /\ tx.type = "buy" => price2 = tx.price
        /\ medium' = addTransaction(medium, tx, nextId, now, "ok", "ok")
        /\ twin' = addTransaction(twin, [tx EXCEPT !.price = price2], nextId, now,
                                  "ok", "ok")
        /\ nextId' = nextId + 1
        /\ last' = [op |-> "addTransaction", clean |-> last.clean]
        /\ UNCHANGED <<now, listeners, defaults>>

TwinRemoveTransaction ==
    \E id \in 1..MaxTx :
        /\ medium' = removeTransaction(medium, id, now, "ok", "ok")
        /\ twin' = removeTransaction(twin, id, now, "ok", "ok")
        /\ last' = [op |-> "removeTransaction", clean |-> FALSE]
        /\ UNCHANGED <<now, nextId, listeners, defaults>>

NextTwin ==
    \/ TwinAddTransaction
    \/ TwinRemoveTransaction

SpecTwin == Init /\ [][NextTwin]_vars

(***************************************************************************)
(* A ledger that receives only buys of btc, in decimal amounts.            *)
(***************************************************************************)
AddFill ==
    \E tx \in Fills :
        /\ nextId <= MaxTx
        /\ medium' = addTransaction(medium, tx, nextId, now, "ok", "ok")
        /\ nextId' = nextId + 1
        /\ last' = [op |-> "addTransaction", tx |-> tx, id |-> nextId,
                    preLog |-> getTransactions(medium, now),
                    preHoldings |-> getHoldings(medium, now),
                    ret |-> TRUE, clean |-> last.clean, direct |-> last.direct]
        /\ UNCHANGED <<now, twin, listeners, defaults>>

SpecFills == Init /\ [][AddFill]_vars

(***************************************************************************)
(* The ledger with buys and sells in decimal amounts, whose sums and       *)
(* differences are rounded.                                                *)
(***************************************************************************)
AddDecimal ==
    \E tx \in DecimalTransactions :
        /\ nextId <= MaxTx
        /\ medium' = addTransaction(medium, tx, nextId, now, "ok", "ok")
        /\ nextId' = nextId + 1
        /\ last' = [op |-> "addTransaction", tx |-> tx, id |-> nextId,
                    preLog |-> getTransactions(medium, now),
                    preHoldings |-> getHoldings(medium, now),
                    ret |-> TRUE, clean |-> last.clean, direct |-> last.direct]
        /\ UNCHANGED <<now, twin, listeners, defaults>>

NextDecimal ==
    \/ AddDecimal
    \/ RemoveTransaction
    \/ RecalculateHoldings

SpecDecimal == Init /\ [][NextDecimal]_vars

(***************************************************************************)
(* Properties of the ledger.                                               *)
(***************************************************************************)
Holdings == getHoldings(medium, now)
Log == getTransactions(medium, now)

\* the holdings reached by adding txs one by one to an empty ledger
RECURSIVE Replay(_, _)
Replay(txs, holdings) ==
    IF txs = <<>> THEN holdings
    ELSE Replay(Tail(txs), UpdatedHoldings(holdings, Head(txs)))

HeldCoins(holdings) == {holdings[i].coinId : i \in 1..Len(holdings)}
HoldingsOf(holdings, coin) == {h \in View(holdings) : h.coinId = coin}

\* C1: the holdings built incrementally by addTransaction calls have the same
\* coinId, amount and averagePrice as the holdings recalculateHoldings derives
\* from the log, and after removeTransaction the holdings are those of
\* replaying the remaining transactions from an empty ledger.
C1_IncrementalEqualsRebuild ==
    /\ (last.op = "addTransaction" /\ last.clean)
            => View(Holdings) = View(RecalculatedHoldings(Log))
    /\ last.op = "removeTransaction"
            => View(Holdings) = View(Replay(Log, <<>>))

\* C2: two ledgers driven by the same calls, differing only in the prices of
\* their sells, have the same holdings (amount and averagePrice).
C2_SellPriceIndependence ==
    View(getHoldings(medium, now)) = View(getHoldings(twin, now))

\* C3: a buy (price p, amount a) of a coin held with amount A at averagePrice P
\* gives amount A+a and averagePrice (P*A + p*a)/(A+a); a buy of a coin not
\* held creates a holding with amount a and averagePrice p; the holdings of
\* the other coins are unchanged.
C3_BuyAccounting ==
    (last.op = "addTransaction" /\ last.tx.type = "buy") =>
        LET tx == last.tx
            pre == last.preHoldings
            old == HoldingsOf(pre, tx.coinId)
            new == HoldingsOf(Holdings, tx.coinId)
        IN  /\ Cardinality(new) = 1
            /\ \A h \in new :
                  IF old = {}
                  THEN h.amount = tx.amount /\ h.averagePrice = tx.price
                  ELSE \E e \in old :
                        /\ h.amount = FAdd(e.amount, tx.amount)
                        /\ h.averagePrice =
                             FDiv(FAdd(FMul(e.averagePrice, e.amount),
                                       FMul(tx.price, tx.amount)),
                                  FAdd(e.amount, tx.amount))
            /\ Len(Holdings) = Len(pre) + (IF old = {} THEN 1 ELSE 0)
            /\ \A i \in 1..Len(pre) :
                  pre[i].coinId # tx.coinId => Holdings[i] = pre[i]

C3_Witness ==
    /\ last.op = "addTransaction" /\ last.tx.type = "buy"
    /\ \E e \in HoldingsOf(last.preHoldings, last.tx.coinId) :
            e.averagePrice # last.tx.price /\ e.amount # last.tx.amount
    /\ \E c \in HeldCoins(last.preHoldings) : c # last.tx.coinId

\* C4: a sell of amount a of a coin held with amount A leaves averagePrice
\* unchanged and sets the amount to A-a when A-a > 0, and removes the holding
\* when A-a <= 0.  Buy 1@10000, buy 1@20000 gives {2, 15000}; a sell of 0.5
\* at any price then gives {1.5, 15000}.
C4_SellAccounting ==
    /\ (last.op = "addTransaction" /\ last.tx.type = "sell") =>
            LET tx == last.tx
                old == HoldingsOf(last.preHoldings, tx.coinId)
                new == HoldingsOf(Holdings, tx.coinId)
            IN  \A e \in old :
                    IF FGt(FSub(e.amount, tx.amount), Zero)
                    THEN new = {[e EXCEPT !.amount = FSub(e.amount, tx.amount)]}
                    ELSE new = {}
    /\ LET IsFill(t, type, price) ==
                t.coinId = "btc" /\ t.type = type /\ t.price = Num(price)
                    /\ t.amount = Num(1)
           TwoBuys(log) ==
                Len(log) = 2 /\ IsFill(log[1], "buy", 10000)
                    /\ IsFill(log[2], "buy", 20000)
       IN  /\ (last.clean /\ TwoBuys(Log)) =>
                View(Holdings) = {[coinId |-> "btc", amount |-> Num(2),
                                   averagePrice |-> Num(15000)]}
           /\ (last.clean /\ last.op = "addTransaction" /\ TwoBuys(last.preLog)
                    /\ last.tx.coinId = "btc" /\ last.tx.type = "sell"
                    /\ last.tx.amount = Lit(1, 2)) =>
                View(Holdings) = {[coinId |-> "btc", amount |-> Lit(3, 2),
                                   averagePrice |-> Num(15000)]}

\* the exhausting sell has acted: the coin was held with exactly the amount sold
C4_Witness ==
    /\ last.op = "addTransaction" /\ last.tx.type = "sell"
    /\ \E e \in HoldingsOf(last.preHoldings, last.tx.coinId) :
            e.amount = last.tx.amount
    /\ HoldingsOf(Holdings, last.tx.coinId) = {}

\* sum of price*amount and of amount over the fills of a coin in a log,
\* added up from the first fill to the last
RECURSIVE SumCost(_, _)
SumCost(txs, coin) ==
    IF txs = <<>> THEN Zero
    ELSE LET tx == txs[Len(txs)]
         IN  FAdd(SumCost(SubSeq(txs, 1, Len(txs) - 1), coin),
                  IF tx.coinId = coin THEN FMul(tx.price, tx.amount) ELSE Zero)

RECURSIVE SumAmount(_, _)
SumAmount(txs, coin) ==
    IF txs = <<>> THEN Zero
    ELSE LET tx == txs[Len(txs)]
         IN  FAdd(SumAmount(SubSeq(txs, 1, Len(txs) - 1), coin),
                  IF tx.coinId = coin THEN tx.amount ELSE Zero)

OnlyBuys(txs, coin) ==
    /\ \E i \in 1..Len(txs) : txs[i].coinId = coin
    /\ \A i \in 1..Len(txs) : txs[i].coinId = coin => txs[i].type = "buy"

Reorderings(txs) ==
    {[i \in 1..Len(txs) |-> txs[p[i]]] : p \in Permutations(1..Len(txs))}

\* x differs from y by at most one part in 10^9 of y
Close(x, y) == FLeq(FMul(FAbs(FSub(x, y)), Num(1000000000)), FAbs(y))

\* C5 as stated: in a ledger that received only buys of a coin through
\* addTransaction, the coin's averagePrice is sum(price*amount)/sum(amount)
\* over its fills, and adding the same fills in any other order gives the
\* same holding.
C5_WeightedMeanOfBuys ==
    last.clean =>
        \A coin \in Coins :
            OnlyBuys(Log, coin) =>
                /\ Cardinality(HoldingsOf(Holdings, coin)) = 1
                /\ \A h \in HoldingsOf(Holdings, coin) :
                      /\ h.amount = SumAmount(Log, coin)
                      /\ h.averagePrice = FDiv(SumCost(Log, coin), SumAmount(Log, coin))
                /\ \A txs \in Reorderings(Log) :
                      HoldingsOf(Replay(txs, <<>>), coin) = HoldingsOf(Holdings, coin)

\* C5, amended: in a ledger that received only buys of a coin through
\* addTransaction, the coin's amount and averagePrice are sum(amount) and
\* sum(price*amount)/sum(amount) over its fills up to the rounding of the
\* double arithmetic (one part in 10^9 at most), and adding the same fills
\* in any other order gives the same amount and averagePrice up to that
\* rounding.
C5_WeightedMeanUpToRounding ==
    last.clean =>
        \A coin \in Coins :
            OnlyBuys(Log, coin) =>
                /\ Cardinality(HoldingsOf(Holdings, coin)) = 1
                /\ \A h \in HoldingsOf(Holdings, coin) :
                      /\ Close(h.amount, SumAmount(Log, coin))
                      /\ Close(h.averagePrice,
                               FDiv(SumCost(Log, coin), SumAmount(Log, coin)))
                      /\ \A txs \in Reorderings(Log) :
                            \E g \in HoldingsOf(Replay(txs, <<>>), coin) :
                                /\ Close(g.amount, h.amount)
                                /\ Close(g.averagePrice, h.averagePrice)

\* buys of 0.1, 0.2 and 0.3 btc at 10000 have been added in this order: the
\* amount is not 0.6 and the averagePrice is not 10000
C5_Witness ==
    /\ last.clean /\ Len(Log) = 3
    /\ \A i \in 1..3 : Log[i].type = "buy" /\ Log[i].price = Num(10000)
                          /\ Log[i].amount = Lit(i, 10)
    /\ \E h \in HoldingsOf(Holdings, "btc") :
            /\ h.amount # Lit(6, 10) /\ FGt(h.amount, Lit(6, 10))
            /\ h.averagePrice # Num(10000) /\ FGt(Num(10000), h.averagePrice)

\* C6: addTransaction returns true whatever its two storage writes do; when the
\* log write succeeds and the holdings write fails the log holds the new
\* transaction and the holdings are unchanged; a recalculateHoldings whose
\* write succeeds leaves the holdings equal to the rebuild of the stored log.
C6_NoRollbackAndRecovery ==
    /\ last.op = "addTransaction" => last.ret = TRUE
    /\ (last.op = "addTransaction" /\ SetReturns(last.o1) /\ ~SetReturns(last.o2)) =>
            /\ Len(Log) = Len(last.preLog) + 1
            /\ SubSeq(Log, 1, Len(last.preLog)) = last.preLog
            /\ Log[Len(Log)] = [id |-> last.id, coinId |-> last.tx.coinId,
                                type |-> last.tx.type, price |-> last.tx.price,
                                amount |-> last.tx.amount]
            /\ Holdings = last.preHoldings
    /\ (last.op = "recalculateHoldings" /\ SetReturns(last.o2)) =>
            /\ Log = last.preLog
            /\ Holdings = RecalculatedHoldings(Log)

\* a rebuild has repaired a ledger whose log held buys while its holdings
\* were empty (the holdings write of an addTransaction had failed)
C6_Witness ==
    /\ last.op = "recalculateHoldings" /\ SetReturns(last.o2)
    /\ last.preHoldings = <<>>
    /\ Len(Log) >= 1
    /\ \A i \in 1..Len(Log) : Log[i].type = "buy"
    /\ Holdings # <<>>

(***************************************************************************)
(* The calls on the alerts singleton.                                      *)
(***************************************************************************)
Conditions == {"above", "below", "percent_change"}
TargetPrices == {50000}
SnapPrices == {0, 49999, 50001}

AlertInputs == [coinId : Coins, condition : Conditions, targetPrice : TargetPrices]
Snapshots == UNION {[S -> SnapPrices] : S \in SUBSET Coins}
AllOk == [id \in 1..(MaxAlerts + 1) |-> "ok"]

AlertAdd ==
    \E alert \in AlertInputs :
        /\ nextId <= MaxAlerts
        /\ medium' = add(medium, alert, nextId, now, "ok")
        /\ nextId' = nextId + 1
        /\ last' = [op |-> "add", ret |-> newAlert(alert, nextId),
                    pre |-> getAll(medium, now), clean |-> FALSE]
        /\ UNCHANGED <<now, twin, listeners, defaults>>

AlertToggle ==
    \E id \in 1..MaxAlerts :
        /\ medium' = toggle(medium, id, now, "ok")
        /\ last' = [op |-> "toggle", id |-> id, ret |-> toggleReturns(medium, id, now),
                    pre |-> getAll(medium, now), clean |-> FALSE]
        /\ UNCHANGED <<now, nextId, twin, listeners, defaults>>

AlertUpdate ==
    \E id \in 1..MaxAlerts, active \in BOOLEAN :
        /\ medium' = update(medium, id, [active |-> active], now, "ok")
        /\ last' = [op |-> "update", id |-> id, ret |-> updateReturns(medium, id, now),
                    pre |-> getAll(medium, now), clean |-> FALSE]
        /\ UNCHANGED <<now, nextId, twin, listeners, defaults>>

AlertRemove ==
    \E id \in 1..MaxAlerts :
        /\ medium' = remove(medium, id, now, "ok")
        /\ last' = [op |-> "remove", id |-> id, ret |-> TRUE,
                    pre |-> getAll(medium, now), clean |-> FALSE]
        /\ UNCHANGED <<now, nextId, twin, listeners, defaults>>

CheckAlerts ==
    \E prices \in Snapshots :
        LET result == checkAlerts(medium, prices, now, AllOk) IN
        /\ medium' = result.medium
        /\ last' = [op |-> "checkAlerts", prices |-> prices, ret |-> result.triggered,
                    pre |-> getAll(medium, now), clean |-> FALSE]
        /\ UNCHANGED <<now, nextId, twin, listeners, defaults>>

\* clear(): this.storage.set(this.key, [])
AlertClear ==
    /\ medium' = SetMedium(medium, ALERTS, <<>>, Null, now, "ok")
    /\ last' = [op |-> "clear", ret |-> TRUE,
                pre |-> getAll(medium, now), clean |-> FALSE]
    /\ UNCHANGED <<now, nextId, twin, listeners, defaults>>

NextAlerts ==
    \/ AlertAdd
    \/ AlertToggle
    \/ AlertUpdate
    \/ AlertRemove
    \/ CheckAlerts
    \/ AlertClear

SpecAlerts == Init /\ [][NextAlerts]_vars

(***************************************************************************)
(* The alerts on a medium whose writes may fail: the write of add and the  *)
(* write of every update made by checkAlerts take any of the WriteOutcomes.*)
(***************************************************************************)
FaultyAlertAdd ==
    \E alert \in AlertInputs, o \in WriteOutcomes :
        /\ nextId <= MaxAlerts
        /\ medium' = add(medium, alert, nextId, now, o)
        /\ nextId' = nextId + 1
        /\ last' = [op |-> "add", ret |-> newAlert(alert, nextId),
                    pre |-> getAll(medium, now), clean |-> FALSE]
        /\ UNCHANGED <<now, twin, listeners, defaults>>

FaultSnapshots == [Coins -> {49999, 50001}]

FaultyCheckAlerts ==
    \E prices \in FaultSnapshots, oc \in [1..MaxAlerts -> WriteOutcomes] :
        LET result == checkAlerts(medium, prices, now, oc) IN
        /\ medium' = result.medium
        /\ last' = [op |-> "checkAlerts", prices |-> prices, oc |-> oc,
                    ret |-> result.triggered,
                    pre |-> getAll(medium, now), clean |-> FALSE]
        /\ UNCHANGED <<now, nextId, twin, listeners, defaults>>

NextAlertsFault ==
    \/ FaultyAlertAdd
    \/ FaultyCheckAlerts

SpecAlertsFault == Init /\ [][NextAlertsFault]_vars

(***************************************************************************)
(* Properties of the alerts.                                               *)
(***************************************************************************)
Alerts == getAll(medium, now)

\* the snapshot holds a price for the alert's coin that meets its condition
Satisfied(alert, prices) ==
    /\ alert.coinId \in DOMAIN prices
    /\ prices[alert.coinId] # 0
    /\ \/ alert.condition = "above" /\ prices[alert.coinId] >= alert.targetPrice
       \/ alert.condition = "below" /\ prices[alert.coinId] <= alert.targetPrice

\* the entries of a checkAlerts result that report the alert with this id
ReportsOf(triggered, id) == {i \in 1..Len(triggered) : triggered[i].alert.id = id}

C8_RearmResetsTriggered ==
    \A i \in 1..Len(Alerts) : ~(Alerts[i].active /\ Alerts[i].triggered)

\* C9: when checkAlerts returns, every alert it reports is stored with
\* triggered = true and active = false, whatever the storage writes did.
C9_ReportedImpliesPersisted ==
    last.op = "checkAlerts" =>
        \A r \in 1..Len(last.ret) :
            \E i \in 1..Len(Alerts) :
                /\ Alerts[i].id = last.ret[r].alert.id
                /\ Alerts[i].triggered /\ ~Alerts[i].active

\* C10: checkAlerts neither reports nor modifies an inactive alert; an active
\* alert whose coin is not in the snapshot is left unchanged and unreported,
\* and the other active alerts of the pass are still evaluated: those whose
\* condition the snapshot satisfies are reported and stored as triggered.
C10_OnlyActiveEvaluated ==
    last.op = "checkAlerts" =>
        /\ Len(Alerts) = Len(last.pre)
        /\ \A r \in 1..Len(last.ret) :
              \E i \in 1..Len(last.pre) :
                  last.pre[i].active /\ last.pre[i] = last.ret[r].alert
        /\ \A i \in 1..Len(last.pre) :
              LET a == last.pre[i] IN
              /\ (~a.active \/ a.coinId \notin DOMAIN last.prices) =>
                    /\ Alerts[i] = a
                    /\ ReportsOf(last.ret, a.id) = {}
              /\ (a.active /\ Satisfied(a, last.prices)) =>
                    /\ ReportsOf(last.ret, a.id) # {}
                    /\ Alerts[i].triggered

\* a pass skipped an active alert whose coin the snapshot lacks and triggered
\* an alert that comes after it
C10_Witness ==
    /\ last.op = "checkAlerts"
    /\ \E i, j \in 1..Len(last.pre) :
            /\ i < j
            /\ last.pre[i].active /\ last.pre[i].coinId \notin DOMAIN last.prices
            /\ last.pre[j].active /\ ReportsOf(last.ret, last.pre[j].id) # {}
            /\ Alerts[i] = last.pre[i]
            /\ Alerts[j].triggered

(***************************************************************************)
(* cryptoUtils.js: checkAlertCondition and calculatePercentageChange.      *)
(* A value is a number or Undefined (JS undefined), which an arithmetic    *)
(* operation or a comparison turns into NaN: a comparison with it is       *)
(* false, and it is falsy like 0 and NaN.                                  *)
(***************************************************************************)
Undefined == <<>>

PRICE_ABOVE == "price_above"
PRICE_BELOW == "price_below"
PERCENTAGE_CHANGE == "percentage_change"
RSI_OVERSOLD == "rsi_oversold"
RSI_OVERBOUGHT == "rsi_overbought"
VOLUME_SPIKE == "volume_spike"

\* the number an operator takes a value for
ToNumber(x) == IF x = Undefined THEN NaN ELSE x

\* !x for a value
Falsy(x) == x = Undefined \/ IsNaN(x) \/ IsZero(x)

\* a >= b and a <= b of JS values
JsGeq(a, b) == FGeq(ToNumber(a), ToNumber(b))
JsLeq(a, b) == FLeq(ToNumber(a), ToNumber(b))

\* value || fallback
OrDefault(value, fallback) == IF Falsy(value) THEN fallback ELSE value

calculatePercentageChange(oldValue, newValue) ==
    IF Falsy(oldValue) THEN Zero
    ELSE FMul(FDiv(FSub(ToNumber(newValue), oldValue), oldValue), Num(100))

\* checkAlertCondition(alert, marketData): triggered and the message template
checkAlertCondition(alert, marketData) ==
    CASE alert.condition = PRICE_ABOVE ->
            [triggered |-> JsGeq(marketData.price, alert.value),
             message |-> "price is now above"]
      [] alert.condition = PRICE_BELOW ->
            [triggered |-> JsLeq(marketData.price, alert.value),
             message |-> "price is now below"]
      [] alert.condition = PERCENTAGE_CHANGE ->
            LET change == calculatePercentageChange(marketData.price24hAgo,
                                                    marketData.price)
            IN  [triggered |-> JsGeq(FAbs(change), alert.value),
                 message |-> "changed in 24h"]
      [] alert.condition = RSI_OVERSOLD ->
            [triggered |-> JsLeq(marketData.rsi, OrDefault(alert.value, Num(30))),
             message |-> "RSI is oversold"]
      [] alert.condition = RSI_OVERBOUGHT ->
            [triggered |-> JsGeq(marketData.rsi, OrDefault(alert.value, Num(70))),
             message |-> "RSI is overbought"]
      [] alert.condition = VOLUME_SPIKE ->
            LET volumeChange == calculatePercentageChange(marketData.volume24hAgo,
                                                          marketData.volume)
            IN  [triggered |-> JsGeq(volumeChange, OrDefault(alert.value, Num(100))),
                 message |-> "volume spiked"]
      [] OTHER ->
            [triggered |-> FALSE, message |-> "Unknown alert condition"]

(***************************************************************************)
(* Alert kinds: checkAlertCondition applied to alerts of every kind, and   *)
(* AlertsManager fed alerts whose condition is none of its own three.      *)
(***************************************************************************)
ConditionKinds ==
    {PRICE_ABOVE, PRICE_BELOW, PERCENTAGE_CHANGE, RSI_OVERSOLD, RSI_OVERBOUGHT,
     VOLUME_SPIKE, "crosses"}
ConditionValues == {Undefined, Zero, Num(20), Num(29), Num(100), Num(150)}
ConditionAlerts == [condition : ConditionKinds, value : ConditionValues]

MarketData ==
    [price : {Num(100), Num(129), Num(200)}, price24hAgo : {Undefined, Zero, Num(100)},
     volume : {Num(100), Num(129), Num(300)}, volume24hAgo : {Undefined, Num(100)},
     rsi : {Undefined, Num(25), Num(75)}]

ManagerKinds == {"above", "percent_change", VOLUME_SPIKE, "crosses"}
KindInputs == [coinId : Coins, condition : ManagerKinds, targetPrice : TargetPrices]

InitConditions ==
    /\ medium = EmptyMedium
    /\ now = 0
    /\ nextId = 1
    /\ last \in [op : {"condition"}, alert : ConditionAlerts, marketData : MarketData,
                 clean : {TRUE}]
    /\ twin = EmptyMedium
    /\ listeners = NoListeners
    /\ defaults = DEFAULTS

EvaluateCondition ==
    /\ last.op = "condition"
    /\ last' = [op |-> "checkAlertCondition", alert |-> last.alert,
                marketData |-> last.marketData,
                ret |-> checkAlertCondition(last.alert, last.marketData),
                clean |-> FALSE]
    /\ UNCHANGED <<medium, now, nextId, twin, listeners, defaults>>

KindAdd ==
    \E alert \in KindInputs :
        /\ nextId <= MaxAlerts
        /\ medium' = add(medium, alert, nextId, now, "ok")
        /\ nextId' = nextId + 1
        /\ last' = [op |-> "add", ret |-> newAlert(alert, nextId),
                    pre |-> getAll(medium, now), clean |-> FALSE]
        /\ UNCHANGED <<now, twin, listeners, defaults>>

KindCheckAlerts ==
    \E prices \in Snapshots :
        LET result == checkAlerts(medium, prices, now, AllOk) IN
        /\ medium' = result.medium
        /\ last' = [op |-> "checkAlerts", prices |-> prices, ret |-> result.triggered,
                    pre |-> getAll(medium, now), clean |-> FALSE]
        /\ UNCHANGED <<now, nextId, twin, listeners, defaults>>

\* checkAlertCondition on the kinds AlertsManager.checkAlerts does not know
KindAlerts ==
    [condition : {PERCENTAGE_CHANGE, VOLUME_SPIKE},
     value : {Num(-1), Zero, Num(29)}]
    \cup [condition : {"crosses"}, value : {Num(29)}]
KindMarketData ==
    {[price |-> current, price24hAgo |-> reference,
      volume |-> current, volume24hAgo |-> reference, rsi |-> Undefined] :
        current \in {Num(129), Num(200)}, reference \in {Undefined, Num(100)}}

EvaluateKind ==
    \E alert \in KindAlerts, marketData \in KindMarketData :
        /\ last' = [op |-> "checkAlertCondition", alert |-> alert,
                    marketData |-> marketData,
                    ret |-> checkAlertCondition(alert, marketData), clean |-> FALSE]
        /\ UNCHANGED <<medium, now, nextId, twin, listeners, defaults>>

NextKinds ==
    \/ EvaluateKind
    \/ KindAdd
    \/ KindCheckAlerts

SpecKinds == Init /\ [][NextKinds]_vars

NextConditions == EvaluateCondition

SpecConditions == InitConditions /\ [][NextConditions]_vars

(***************************************************************************)
(* Properties of the alert kinds.                                          *)
(***************************************************************************)
KnownConditions ==
    {PRICE_ABOVE, PRICE_BELOW, PERCENTAGE_CHANGE, RSI_OVERSOLD, RSI_OVERBOUGHT,
     VOLUME_SPIKE}

\* the kinds the condition chain of AlertsManager.checkAlerts names
ManagerConditions == {"above", "below", "percent_change"}

\* C11: for a condition kind it does not know, checkAlertCondition returns
\* triggered = false with the message 'Unknown alert condition'; a
\* checkAlerts pass leaves an alert of a kind it does not know unchanged and
\* unreported, and still reports and stores as triggered the other active
\* alerts whose condition the snapshot satisfies.
C11_UnknownKindNeverTriggers ==
    /\ (last.op = "checkAlertCondition" /\ last.alert.condition \notin KnownConditions) =>
            /\ ~last.ret.triggered
            /\ last.ret.message = "Unknown alert condition"
    /\ last.op = "checkAlerts" =>
            /\ Len(Alerts) = Len(last.pre)
            /\ \A i \in 1..Len(last.pre) :
                  LET a == last.pre[i] IN
                  /\ a.condition \notin ManagerConditions =>
                        /\ Alerts[i] = a
                        /\ ReportsOf(last.ret, a.id) = {}
                  /\ (a.active /\ Satisfied(a, last.prices)) =>
                        /\ Cardinality(ReportsOf(last.ret, a.id)) = 1
                        /\ Alerts[i] = [a EXCEPT !.active = FALSE, !.triggered = TRUE]

\* a pass met an active alert of an unknown kind whose coin is priced above
\* its target, and triggered an alert that comes after it
C11_Witness ==
    /\ last.op = "checkAlerts"
    /\ \E i, j \in 1..Len(last.pre) :
            /\ i < j
            /\ last.pre[i].active /\ last.pre[i].condition = "crosses"
            /\ last.pre[i].coinId \in DOMAIN last.prices
            /\ last.prices[last.pre[i].coinId] = 50001
            /\ Alerts[i] = last.pre[i]
            /\ last.pre[j].active /\ Satisfied(last.pre[j], last.prices)
            /\ ReportsOf(last.ret, last.pre[j].id) # {}

\* a checkAlerts pass never reports nor modifies a percentage-change or
\* volume-spike alert
PercentOrVolumeUntouched ==
    last.op = "checkAlerts" =>
        \A i \in 1..Len(last.pre) :
            last.pre[i].condition \in {"percent_change", PERCENTAGE_CHANGE, VOLUME_SPIKE} =>
                /\ Alerts[i] = last.pre[i]
                /\ ReportsOf(last.ret, last.pre[i].id) = {}

\* C12 as stated: an alert of kind percentage-change or volume-spike never
\* triggers, neither in AlertsManager.checkAlerts nor in checkAlertCondition.
C12_NeverTriggers ==
    /\ PercentOrVolumeUntouched
    /\ (last.op = "checkAlertCondition"
            /\ last.alert.condition \in {PERCENTAGE_CHANGE, VOLUME_SPIKE}) =>
            ~last.ret.triggered

\* C12 amended: an alert of kind percentage-change or volume-spike never
\* triggers in AlertsManager.checkAlerts, whatever the snapshot;
\* checkAlertCondition can trigger one: an alert of either kind with value 29
\* triggers against market data whose price and volume went from 100, 24
\* hours ago, to 200.
C12_NeverTriggersInCheckAlerts ==
    /\ PercentOrVolumeUntouched
    /\ (last.op = "checkAlertCondition"
            /\ last.alert.condition \in {PERCENTAGE_CHANGE, VOLUME_SPIKE}
            /\ last.alert.value = Num(29)
            /\ last.marketData.price = Num(200)
            /\ last.marketData.price24hAgo = Num(100)
            /\ last.marketData.volume = Num(200)
            /\ last.marketData.volume24hAgo = Num(100)) =>
            last.ret.triggered

\* checkAlertCondition triggered a percentage-change alert of value 29 on a
\* price that went from 100 to 200, while the stored list holds an active,
\* untriggered percent_change alert that was there when a checkAlerts pass
\* triggered a later alert on the same coin
C12_Witness ==
    /\ last.op = "checkAlertCondition"
    /\ last.alert = [condition |-> PERCENTAGE_CHANGE, value |-> Num(29)]
    /\ last.marketData.price = Num(200)
    /\ last.marketData.price24hAgo = Num(100)
    /\ last.ret.triggered
    /\ \E i, j \in 1..Len(Alerts) :
            /\ Alerts[i].id < Alerts[j].id
            /\ Alerts[i].coinId = Alerts[j].coinId
            /\ Alerts[i].condition = "percent_change"
            /\ Alerts[i].active /\ ~Alerts[i].triggered
            /\ Alerts[j].condition = "above"
            /\ ~Alerts[j].active /\ Alerts[j].triggered

\* C13: checkAlertCondition triggers an RSI-oversold alert iff rsi <= threshold,
\* an RSI-overbought alert iff rsi >= threshold, a volume-spike alert iff the
\* volume increase in percent >= threshold, where the threshold is the alert's
\* value whenever a value is supplied and 30 / 70 / 100 only when none is; a
\* percentage-change alert triggers iff |change in percent| >= value.
C13_ThresholdIsSuppliedValue ==
    last.op = "checkAlertCondition" =>
        LET a == last.alert
            d == last.marketData
            Threshold(fallback) == IF a.value # Undefined THEN a.value ELSE fallback
        IN  /\ a.condition = RSI_OVERSOLD =>
                    (last.ret.triggered <=> JsLeq(d.rsi, Threshold(Num(30))))
            /\ a.condition = RSI_OVERBOUGHT =>
                    (last.ret.triggered <=> JsGeq(d.rsi, Threshold(Num(70))))
            /\ a.condition = VOLUME_SPIKE =>
                    (last.ret.triggered <=>
                        JsGeq(calculatePercentageChange(d.volume24hAgo, d.volume),
                              Threshold(Num(100))))
            /\ a.condition = PERCENTAGE_CHANGE =>
                    (last.ret.triggered <=>
                        JsGeq(FAbs(calculatePercentageChange(d.price24hAgo, d.price)),
                              a.value))

(***************************************************************************)
(* The store on its own: set / get / remove / clear of a StorageManager    *)
(* built over a medium that may already hold records of an earlier         *)
(* session: an envelope of another version, an item that is not JSON, and  *)
(* a record of other code outside the namespace.                           *)
(***************************************************************************)
StoreKeys == {"k1", "k2"}
StoreValues == {"v1", "v2"}
DefaultValue == "default"
TTLs == {Null, 0, 2}

ForeignKey == <<"other_", "k1">>
ForeignItem == [parsable |-> FALSE]
Unparsable == [parsable |-> FALSE]
OldVersion ==
    [parsable |-> TRUE, value |-> "old", version |-> "0.9", timestamp |-> 0,
     expires |-> Null]

PriorMedia ==
    {[k \in D |-> IF k = ForeignKey THEN ForeignItem ELSE item] :
        D \in SUBSET {ForeignKey, getFullKey("k1")}, item \in {Unparsable, OldVersion}}

InitStore ==
    /\ medium \in PriorMedia
    /\ now = 0
    /\ nextId = 1
    /\ last = [op |-> "none", clean |-> TRUE]
    /\ twin = EmptyMedium
    /\ listeners = NoListeners
    /\ defaults = DEFAULTS

\* Date.now() advances
Tick ==
    /\ now < MaxTime
    /\ now' = now + 1
    /\ last' = [op |-> "tick", clean |-> FALSE]
    /\ UNCHANGED <<medium, nextId, twin, listeners, defaults>>

StoreSet ==
    \E key \in StoreKeys, value \in StoreValues, ttl \in TTLs, outcome \in WriteOutcomes :
        /\ medium' = SetMedium(medium, key, value, ttl, now, outcome)
        /\ last' = [op |-> "set", key |-> key, value |-> value, ttl |-> ttl, t |-> now,
                    outcome |-> outcome, ret |-> SetReturns(outcome), pre |-> medium,
                    clean |-> FALSE]
        /\ UNCHANGED <<now, nextId, twin, listeners, defaults>>

StoreGet ==
    \E key \in StoreKeys :
        /\ medium' = GetMedium(medium, key, now)
        /\ last' = [op |-> "get", key |-> key, t |-> now,
                    ret |-> GetValue(medium, key, DefaultValue, now), pre |-> medium,
                    clean |-> FALSE]
        /\ UNCHANGED <<now, nextId, twin, listeners, defaults>>

StoreRemove ==
    \E key \in StoreKeys :
        /\ medium' = RemoveMedium(medium, key)
        /\ last' = [op |-> "remove", key |-> key, t |-> now, ret |-> TRUE,
                    pre |-> medium, clean |-> FALSE]
        /\ UNCHANGED <<now, nextId, twin, listeners, defaults>>

StoreClear ==
    /\ medium' = clear(medium)
    /\ last' = [op |-> "clear", t |-> now, ret |-> TRUE, pre |-> medium,
                clean |-> FALSE]
    /\ UNCHANGED <<now, nextId, twin, listeners, defaults>>

StoreClearExpired ==
    /\ medium' = clearExpired(medium, now)
    /\ last' = [op |-> "clearExpired", t |-> now, ret |-> cleared(medium, now),
                pre |-> medium, clean |-> FALSE]
    /\ UNCHANGED <<now, nextId, twin, listeners, defaults>>

NextStore ==
    \/ Tick
    \/ StoreSet
    \/ StoreGet
    \/ StoreRemove
    \/ StoreClear
    \/ StoreClearExpired

SpecStore == InitStore /\ [][NextStore]_vars

(***************************************************************************)
(* Properties of the store.                                                *)
(***************************************************************************)
\* the record under the key before the last call, where there was one
HadRecord == getFullKey(last.key) \in DOMAIN last.pre
PreRecord == last.pre[getFullKey(last.key)]

\* C14: a get that finds the record expired (now > expiry) or of another
\* version returns the caller's default and deletes the record: the key is
\* then absent from the medium and from keys(); a get that finds a record of
\* the current version that has not expired returns its value and keeps it.
C14_InvalidReadPurges ==
    (last.op = "get" /\ HadRecord /\ PreRecord.parsable) =>
        IF \/ PreRecord.expires # Null /\ last.t > PreRecord.expires
           \/ PreRecord.version # STORAGE_VERSION
        THEN /\ last.ret = DefaultValue
             /\ getFullKey(last.key) \notin DOMAIN medium
             /\ last.key \notin keys(medium)
        ELSE /\ last.ret = PreRecord.value
             /\ medium = last.pre

\* a get read a record of the current version after its expiry
C14_Witness ==
    /\ last.op = "get" /\ HadRecord /\ PreRecord.parsable
    /\ PreRecord.version = STORAGE_VERSION
    /\ PreRecord.expires # Null /\ last.t > PreRecord.expires
    /\ last.ret = DefaultValue
    /\ last.key \notin keys(medium)

\* C15: a get that finds an item that cannot be parsed returns the caller's
\* default without raising and deletes the record.
C15_UnparsableReadPurges ==
    (last.op = "get" /\ HadRecord /\ ~PreRecord.parsable) =>
        /\ last.ret = DefaultValue
        /\ getFullKey(last.key) \notin DOMAIN medium

\* C16: a set whose write fails for lack of capacity purges every expired
\* record of the namespace and retries once; when the retry succeeds set
\* returns true and get returns the new value; when it fails set returns
\* false and every value that was stored and readable before is still
\* returned by get; records outside the namespace are untouched.
C16_CapacityRecovery ==
    (last.op = "set" /\ last.outcome \in {"retry_ok", "retry_fail"}) =>
        /\ \A fk \in DOMAIN last.pre :
              (startsWithPrefix(fk) /\ last.pre[fk].parsable
                    /\ last.pre[fk].expires # Null /\ last.t > last.pre[fk].expires) =>
                  \/ fk \notin DOMAIN medium
                  \/ last.outcome = "retry_ok" /\ fk = getFullKey(last.key)
        /\ \A fk \in DOMAIN last.pre :
              ~startsWithPrefix(fk) => fk \in DOMAIN medium /\ medium[fk] = last.pre[fk]
        /\ last.outcome = "retry_ok" =>
              /\ last.ret = TRUE
              /\ GetValue(medium, last.key, DefaultValue, last.t) = last.value
        /\ last.outcome = "retry_fail" =>
              /\ last.ret = FALSE
              /\ \A k \in StoreKeys :
                    GetValue(last.pre, k, DefaultValue, last.t) # DefaultValue =>
                        GetValue(medium, k, DefaultValue, last.t) =
                            GetValue(last.pre, k, DefaultValue, last.t)

\* a failed retry purged an expired record and kept the unexpired value that
\* was stored under the key of the set
C16_Witness ==
    /\ last.op = "set" /\ last.outcome = "retry_fail" /\ ~last.ret
    /\ HadRecord /\ PreRecord.parsable /\ PreRecord.version = STORAGE_VERSION
    /\ GetValue(medium, last.key, DefaultValue, last.t) = PreRecord.value
    /\ PreRecord.value # last.value
    /\ \E fk \in DOMAIN last.pre :
            /\ startsWithPrefix(fk) /\ last.pre[fk].parsable
            /\ last.pre[fk].expires # Null /\ last.t > last.pre[fk].expires
            /\ fk \notin DOMAIN medium

\* C19: after a set(key, v, {ttl}) that returned true at time t0, get returns v
\* at every time t <= t0 + ttl and the default at every t > t0 + ttl, for
\* any ttl supplied; after a set without ttl get returns v at every time.
C19_RoundTripWithinTtl ==
    (last.op = "set" /\ last.ret) =>
        \A t \in last.t..(MaxTime + 1) :
            GetValue(medium, last.key, DefaultValue, t) =
                IF last.ttl = Null \/ t <= last.t + last.ttl
                THEN last.value ELSE DefaultValue

\* C20: clear() removes every record of the namespace, whatever its expiry
\* or version, and leaves the records outside the namespace untouched.
C20_ClearOnlyNamespace ==
    last.op = "clear" =>
        /\ keys(medium) = {}
        /\ \A fk \in DOMAIN medium : ~startsWithPrefix(fk)
        /\ \A fk \in DOMAIN last.pre :
              ~startsWithPrefix(fk) => fk \in DOMAIN medium /\ medium[fk] = last.pre[fk]

\* a clear met an expired record, a record of another version and a record
\* outside the namespace
C20_Witness ==
    /\ last.op = "clear"
    /\ ForeignKey \in DOMAIN last.pre /\ ForeignKey \in DOMAIN medium
    /\ \E fk \in DOMAIN last.pre :
            /\ startsWithPrefix(fk) /\ last.pre[fk].parsable
            /\ last.pre[fk].version # STORAGE_VERSION
    /\ \E fk \in DOMAIN last.pre :
            /\ startsWithPrefix(fk) /\ last.pre[fk].parsable
            /\ last.pre[fk].expires # Null /\ last.t > last.pre[fk].expires

(***************************************************************************)
(* Change listeners: subscribe, and the set / remove that notify.          *)
(***************************************************************************)
Callbacks == {"onA", "onB", "onThrow"}

Subscribe ==
    \E key \in StoreKeys, callback \in Callbacks :
        /\ listeners' = subscribe(listeners, key, callback)
        /\ last' = [op |-> "subscribe", key |-> key, callback |-> callback,
                    clean |-> FALSE]
        /\ UNCHANGED <<medium, now, nextId, twin, defaults>>

ListenedSet ==
    \E key \in StoreKeys, value \in StoreValues, outcome \in WriteOutcomes :
        /\ medium' = SetMedium(medium, key, value, Null, now, outcome)
        /\ last' = [op |-> "set", key |-> key, value |-> value, outcome |-> outcome,
                    ret |-> SetReturns(outcome),
                    calls |-> SetCalls(listeners, key, value, outcome), clean |-> FALSE]
        /\ UNCHANGED <<now, nextId, twin, listeners, defaults>>

ListenedRemove ==
    \E key \in StoreKeys :
        /\ medium' = RemoveMedium(medium, key)
        /\ last' = [op |-> "remove", key |-> key, value |-> NullValue, outcome |-> "ok",
                    ret |-> TRUE, calls |-> RemoveCalls(listeners, key), clean |-> FALSE]
        /\ UNCHANGED <<now, nextId, twin, listeners, defaults>>

NextListeners ==
    \/ Subscribe
    \/ ListenedSet
    \/ ListenedRemove

SpecListeners == Init /\ [][NextListeners]_vars

(***************************************************************************)
(* Properties of the listeners.                                            *)
(***************************************************************************)
\* the callbacks subscribed to the key of the last call
Subscribed ==
    IF last.key \in DOMAIN listeners
    THEN {listeners[last.key][i] : i \in 1..Len(listeners[last.key])} ELSE {}

\* the calls of the last set / remove made to this callback
CallsTo(callback) == {i \in 1..Len(last.calls) : last.calls[i].callback = callback}

\* each subscribed callback was called once, with the new value and the key
EachNotifiedOnce ==
    /\ \A cb \in Subscribed : Cardinality(CallsTo(cb)) = 1
    /\ \A i \in 1..Len(last.calls) :
          /\ last.calls[i].callback \in Subscribed
          /\ last.calls[i].value = last.value
          /\ last.calls[i].key = last.key

\* the record is what the call meant it to be
RecordAsIntended ==
    IF last.op = "set"
    THEN GetValue(medium, last.key, DefaultValue, now) = last.value
    ELSE getFullKey(last.key) \notin DOMAIN medium

\* C17: after every set or remove that returns true, each listener
\* subscribed to the key has been called exactly once with the new value
\* (null for a removal), also when the set succeeded on the retry.
C17_NotifiedOnEverySuccess ==
    (last.op \in {"set", "remove"} /\ last.ret) => EachNotifiedOnce

\* C18: when a listener throws while it is notified, the other listeners of
\* the key are still called, each once, the set / remove returns true and
\* the record is stored (or removed) as the call intended.
C18_ListenerFailureIsolated ==
    (last.op \in {"set", "remove"} /\ \E i \in 1..Len(last.calls) : last.calls[i].threw) =>
        /\ EachNotifiedOnce
        /\ last.ret
        /\ RecordAsIntended

\* a set notified a throwing listener and then another listener
C18_Witness ==
    /\ last.op = "set" /\ last.ret
    /\ \E i, j \in 1..Len(last.calls) :
            i < j /\ last.calls[i].threw /\ ~last.calls[j].threw
    /\ RecordAsIntended

(***************************************************************************)
(* CacheManager: {data, cachedAt} stored under cache_<key> with a ttl.     *)
(***************************************************************************)
DEFAULT_MAX_AGE == 300000
DEFAULT_TTL == 300000

CacheNames == {"prices", "coins"}

\* `cache_${key}`
CacheKey(key) ==
    CASE key = "prices" -> "cache_prices"
      [] key = "coins" -> "cache_coins"
      [] OTHER -> "cache_"

\* storage.get(key) finds a record it returns: there is one, it parses, it
\* has not expired and it is of the current version
HasValid(m, key, t) ==
    LET fk == getFullKey(key) IN
    /\ fk \in DOMAIN m
    /\ m[fk].parsable
    /\ ~IsExpired(m[fk], t)
    /\ m[fk].version = STORAGE_VERSION

\* get(key): the listener calls made by the remove of an invalid record
GetCalls(ls, m, key, t) ==
    LET fk == getFullKey(key) IN
    IF fk \in DOMAIN m /\ m[fk].parsable
          /\ (IsExpired(m[fk], t) \/ m[fk].version # STORAGE_VERSION)
    THEN notifyListeners(ls, key, NullValue) ELSE <<>>

\* Date.now() - cached.cachedAt > maxAge
CacheStale(cached, maxAge, t) == t - cached.cachedAt > maxAge

\* CacheManager.get(key, maxAge) at time t: the value returned
CacheGetValue(m, key, maxAge, t) ==
    IF ~HasValid(m, CacheKey(key), t) THEN NullValue
    ELSE LET cached == m[getFullKey(CacheKey(key))].value IN
         IF CacheStale(cached, maxAge, t) THEN NullValue ELSE cached.data

\* CacheManager.get(key, maxAge) at time t: the medium afterwards
CacheGetMedium_KeepsStale(m, key, maxAge, t) == GetMedium(m, CacheKey(key), t)

CacheGetMedium(m, key, maxAge, t) ==
    IF ~HasValid(m, CacheKey(key), t) THEN GetMedium(m, CacheKey(key), t)
    ELSE LET cached == m[getFullKey(CacheKey(key))].value IN
         IF CacheStale(cached, maxAge, t) THEN RemoveMedium(m, CacheKey(key)) ELSE m

\* CacheManager.get(key, maxAge) at time t: the listener calls it makes
CacheGetCalls(ls, m, key, maxAge, t) ==
    IF ~HasValid(m, CacheKey(key), t) THEN GetCalls(ls, m, CacheKey(key), t)
    ELSE LET cached == m[getFullKey(CacheKey(key))].value IN
         IF CacheStale(cached, maxAge, t)
         THEN RemoveCalls(ls, CacheKey(key)) ELSE <<>>

\* CacheManager.set(key, data, ttl) at time t: the medium afterwards
CacheSetMedium_WithoutTtl(m, key, data, ttl, t, outcome) ==
    SetMedium(m, CacheKey(key), [data |-> data, cachedAt |-> t], Null, t, outcome)

CacheSetMedium(m, key, data, ttl, t, outcome) ==
    SetMedium(m, CacheKey(key), [data |-> data, cachedAt |-> t], ttl, t, outcome)

(***************************************************************************)
(* The calls on a cache, with a clock that advances between them.          *)
(***************************************************************************)
CacheData == {"d1", "d2"}
CacheTtls == {0, 1000, DEFAULT_TTL}
MaxAges == {999, DEFAULT_MAX_AGE}
ElapseSteps == {999, 1000, 1001}

\* Date.now() advances between two calls
Elapse ==
    \E d \in ElapseSteps :
        /\ now + d <= MaxClock
        /\ now' = now + d
        /\ last' = [op |-> "elapse", clean |-> FALSE]
        /\ UNCHANGED <<medium, nextId, twin, listeners, defaults>>

CacheSubscribe ==
    \E key \in CacheNames :
        /\ listeners' = subscribe(listeners, CacheKey(key), "onChange")
        /\ last' = [op |-> "subscribe", key |-> key, clean |-> FALSE]
        /\ UNCHANGED <<medium, now, nextId, twin, defaults>>

CacheSet ==
    \E key \in CacheNames, data \in CacheData, ttl \in CacheTtls, outcome \in WriteOutcomes :
        /\ medium' = CacheSetMedium(medium, key, data, ttl, now, outcome)
        /\ last' = [op |-> "cacheSet", key |-> key, data |-> data, ttl |-> ttl,
                    t |-> now, outcome |-> outcome, ret |-> SetReturns(outcome),
                    clean |-> FALSE]
        /\ UNCHANGED <<now, nextId, twin, listeners, defaults>>

CacheGet ==
    \E key \in CacheNames, maxAge \in MaxAges :
        /\ medium' = CacheGetMedium(medium, key, maxAge, now)
        /\ last' = [op |-> "cacheGet", key |-> key, maxAge |-> maxAge, t |-> now,
                    ret |-> CacheGetValue(medium, key, maxAge, now),
                    calls |-> CacheGetCalls(listeners, medium, key, maxAge, now),
                    pre |-> medium, clean |-> FALSE]
        /\ UNCHANGED <<now, nextId, twin, listeners, defaults>>

NextCache ==
    \/ Elapse
    \/ CacheSubscribe
    \/ CacheSet
    \/ CacheGet

SpecCache == Init /\ [][NextCache]_vars

(***************************************************************************)
(* Properties of the cache.                                                *)
(***************************************************************************)
\* the full key of the cache entry of the last call, and the record that was
\* under it before the call
EntryKey == getFullKey(CacheKey(last.key))
HadEntry == EntryKey \in DOMAIN last.pre
PreEntry == last.pre[EntryKey]

\* a read with the default maxAge made d ms after the last call returns the
\* data of that call and keeps the record
ReadReturnsData(d) ==
    /\ CacheGetValue(medium, last.key, DEFAULT_MAX_AGE, last.t + d) = last.data
    /\ CacheGetMedium(medium, last.key, DEFAULT_MAX_AGE, last.t + d) = medium

\* a read with the default maxAge made d ms after the last call returns null
\* and leaves no record under the key
ReadReturnsAbsent(d) ==
    /\ CacheGetValue(medium, last.key, DEFAULT_MAX_AGE, last.t + d) = NullValue
    /\ EntryKey \notin DOMAIN CacheGetMedium(medium, last.key, DEFAULT_MAX_AGE, last.t + d)

\* C21 as stated: an entry stored by a CacheManager.set with ttl = 1000 that
\* returned true is returned unchanged and kept by a get 999 ms later, and is
\* absent (null) and purged for a get 1001 ms later.
C21_TtlBoundary ==
    (last.op = "cacheSet" /\ last.ret /\ last.ttl = 1000) =>
        ReadReturnsData(999) /\ ReadReturnsAbsent(1001)

\* C21 amended: the same for an entry whose write succeeded at the first
\* attempt, both for the reads that can follow the set and for every get the
\* cache serves from a record that expires 1000 ms after it was cached.
C21_TtlBoundaryFirstAttempt ==
    /\ (last.op = "cacheSet" /\ last.outcome = "ok" /\ last.ttl = 1000) =>
            ReadReturnsData(999) /\ ReadReturnsAbsent(1001)
    /\ (last.op = "cacheGet" /\ last.maxAge = DEFAULT_MAX_AGE /\ HadEntry
            /\ PreEntry.expires = PreEntry.value.cachedAt + 1000) =>
            /\ last.t = PreEntry.value.cachedAt + 999 =>
                    last.ret = PreEntry.value.data /\ medium = last.pre
            /\ last.t = PreEntry.value.cachedAt + 1001 =>
                    last.ret = NullValue /\ EntryKey \notin DOMAIN medium

\* a get read an entry 1001 ms after it was cached with ttl 1000
C21_Witness ==
    /\ last.op = "cacheGet" /\ last.maxAge = DEFAULT_MAX_AGE /\ HadEntry
    /\ PreEntry.expires = PreEntry.value.cachedAt + 1000
    /\ last.t = PreEntry.value.cachedAt + 1001
    /\ last.ret = NullValue
    /\ EntryKey \notin DOMAIN medium

\* C22: after a CacheManager.set(key, data, ttl) that returned true at time
\* t0, get(key, maxAge) at time t returns data iff t <= t0 + ttl and
\* t - t0 <= maxAge, and null otherwise.
C22_BothFreshnessChecks ==
    (last.op = "cacheSet" /\ last.ret) =>
        \A d \in {0} \cup ElapseSteps, maxAge \in MaxAges :
            CacheGetValue(medium, last.key, maxAge, last.t + d) =
                IF last.t + d <= last.t + last.ttl /\ d <= maxAge
                THEN last.data ELSE NullValue

\* C23: a get that finds the entry stale removes the record, notifies each
\* listener of the key once with null and returns null; a get that finds no
\* record returns null, changes nothing and notifies nobody; so the gets that
\* follow a stale read remove nothing until the next set.
C23_StaleReadEvictsOnce ==
    last.op = "cacheGet" =>
        /\ (HadEntry /\ last.ret = NullValue) =>
                /\ EntryKey \notin DOMAIN medium
                /\ last.calls = notifyListeners(listeners, CacheKey(last.key), NullValue)
        /\ (HadEntry /\ last.ret # NullValue) =>
                medium = last.pre /\ last.calls = <<>>
        /\ ~HadEntry =>
                /\ last.ret = NullValue
                /\ medium = last.pre
                /\ last.calls = <<>>

\* a get with a maxAge shorter than the ttl evicted an entry the store had
\* not expired, and notified the listener of the key
C23_Witness ==
    /\ last.op = "cacheGet" /\ HadEntry
    /\ ~IsExpired(PreEntry, last.t)
    /\ last.t - PreEntry.value.cachedAt > last.maxAge
    /\ last.ret = NullValue
    /\ EntryKey \notin DOMAIN medium
    /\ Len(last.calls) = 1

(***************************************************************************)
(* PortfolioManager.getSummary.                                            *)
(***************************************************************************)
\* currentPrices[holding.coinId] || 0
CurrentPrice(currentPrices, coinId) ==
    IF coinId \in DOMAIN currentPrices /\ ~Falsy(currentPrices[coinId])
    THEN currentPrices[coinId] ELSE Zero

\* cost > 0 ? (profitLoss / cost) * 100 : 0
PercentOf(profitLoss, cost) ==
    IF FGt(cost, Zero) THEN FMul(FDiv(profitLoss, cost), Num(100)) ELSE Zero

\* the entry of details for one holding: every field of the holding, then
\* currentPrice, value, cost, profitLoss and profitLossPercent
SummaryDetail(holding, currentPrices) ==
    LET currentPrice == CurrentPrice(currentPrices, holding.coinId)
        value == FMul(holding.amount, currentPrice)
        cost == FMul(holding.amount, holding.averagePrice)
        profitLoss == FSub(value, cost)
    IN  Spread(holding,
               [currentPrice |-> currentPrice, value |-> value, cost |-> cost,
                profitLoss |-> profitLoss,
                profitLossPercent |-> PercentOf(profitLoss, cost)])

\* totalValue += value and totalCost += cost, in the order of the details
RECURSIVE TotalValue(_)
TotalValue(details) ==
    IF details = <<>> THEN Zero
    ELSE FAdd(TotalValue(SubSeq(details, 1, Len(details) - 1)),
              details[Len(details)].value)

RECURSIVE TotalCost(_)
TotalCost(details) ==
    IF details = <<>> THEN Zero
    ELSE FAdd(TotalCost(SubSeq(details, 1, Len(details) - 1)),
              details[Len(details)].cost)

\* getSummary(currentPrices): the summary returned
getSummary(m, currentPrices, t) ==
    LET holdings == getHoldings(m, t)
        details == [i \in 1..Len(holdings) |-> SummaryDetail(holdings[i], currentPrices)]
        totalValue == TotalValue(details)
        totalCost == TotalCost(details)
    IN  [holdings |-> details, totalValue |-> totalValue, totalCost |-> totalCost,
         totalProfitLoss |-> FSub(totalValue, totalCost),
         totalProfitLossPercent |-> PercentOf(FSub(totalValue, totalCost), totalCost)]

(***************************************************************************)
(* The ledger with the summary read between its calls.                     *)
(***************************************************************************)
SummaryPrices == UNION {[S -> {Num(20000)}] : S \in SUBSET Coins}

GetSummary ==
    \E currentPrices \in SummaryPrices :
        /\ medium' = GetMedium(medium, PORTFOLIO, now)
        /\ last' = [op |-> "getSummary", currentPrices |-> currentPrices,
                    ret |-> getSummary(medium, currentPrices, now), pre |-> medium,
                    clean |-> FALSE, direct |-> last.direct]
        /\ UNCHANGED <<now, nextId, twin, listeners, defaults>>

NextSummary ==
    \/ AddTransaction
    \/ RemoveTransaction
    \/ RecalculateHoldings
    \/ GetSummary

SpecSummary == Init /\ [][NextSummary]_vars

\* C24: getSummary(currentPrices) reports for each holding profitLoss =
\* amount*currentPrice - amount*averagePrice, totalValue and totalCost as the
\* sums of the values and costs, totalProfitLoss = totalValue - totalCost and
\* totalProfitLossPercent = (totalValue - totalCost)/totalCost*100, which is 0
\* when totalCost is 0; it changes no stored state.
C24_SummaryArithmetic ==
    last.op = "getSummary" =>
        LET hs == getHoldings(last.pre, now)
            r == last.ret
            Price(i) == CurrentPrice(last.currentPrices, hs[i].coinId)
        IN  /\ medium = last.pre
            /\ Len(r.holdings) = Len(hs)
            /\ \A i \in 1..Len(hs) :
                  r.holdings[i].profitLoss =
                      FSub(FMul(hs[i].amount, Price(i)),
                           FMul(hs[i].amount, hs[i].averagePrice))
            /\ r.totalValue = TotalValue(r.holdings)
            /\ r.totalCost = TotalCost(r.holdings)
            /\ r.totalProfitLoss = FSub(r.totalValue, r.totalCost)
            /\ r.totalProfitLossPercent =
                  IF r.totalCost = Zero THEN Zero
                  ELSE FMul(FDiv(FSub(r.totalValue, r.totalCost), r.totalCost), Num(100))

(***************************************************************************)
(* cryptoUtils.js: the technical indicators.  A series argument is         *)
(* [defined, items]: defined is FALSE for a missing (undefined / null)     *)
(* array; the items are rationals.  A result that JS computes as NaN is    *)
(* Undefined.                                                              *)
(***************************************************************************)
NoData == [defined |-> FALSE, items |-> <<>>]
Arr(items) == [defined |-> TRUE, items |-> items]

\* reduce((a, b) => a + b, 0)
RECURSIVE SumOf(_)
SumOf(items) == IF items = <<>> THEN RZero ELSE RAdd(Head(items), SumOf(Tail(items)))

\* calculateSMA(data, period)
calculateSMA_SkipsFirstWindow(data, period) ==
    IF ~data.defined \/ Len(data.items) < period THEN <<>>
    ELSE [k \in 1..(Len(data.items) - period) |->
            RDiv(SumOf(SubSeq(data.items, k + 1, k + period)), RInt(period))]

calculateSMA(data, period) ==
    IF ~data.defined \/ Len(data.items) < period THEN <<>>
    ELSE [k \in 1..(Len(data.items) - period + 1) |->
            RDiv(SumOf(SubSeq(data.items, k, k + period - 1)), RInt(period))]

\* the loop of calculateEMA from item i on, ema holding the values so far
RECURSIVE EmaLoop(_, _, _, _)
EmaLoop(items, i, multiplier, ema) ==
    IF i > Len(items) THEN ema
    ELSE LET prev == ema[Len(ema)]
         IN  EmaLoop(items, i + 1, multiplier,
                     Append(ema, RAdd(RMul(RSub(items[i], prev), multiplier), prev)))

\* calculateEMA(data, period)
calculateEMA(data, period) ==
    IF ~data.defined \/ Len(data.items) < period THEN <<>>
    ELSE EmaLoop(data.items, period + 1, Rat(2, period + 1),
                 <<RDiv(SumOf(SubSeq(data.items, 1, period)), RInt(period))>>)

\* 100 - (100 / (1 + avgGain / avgLoss)) in IEEE arithmetic: with avgLoss = 0
\* the quotient is Infinity for avgGain > 0 (the value is then 100) and NaN
\* for avgGain = 0
RsiFormula(avgGain, avgLoss) ==
    IF avgLoss = RZero
    THEN IF avgGain = RZero THEN Undefined ELSE RInt(100)
    ELSE RSub(RInt(100), RDiv(RInt(100), RAdd(RInt(1), RDiv(avgGain, avgLoss))))

\* Math.abs of an exact number
MathAbs(x) == IF x = Undefined THEN Undefined ELSE <<Abs(x[1]), x[2]>>

\* gains and losses of the changes of a series
Changes(items) == [i \in 1..(Len(items) - 1) |-> RSub(items[i + 1], items[i])]
Gains(changes) ==
    [i \in 1..Len(changes) |-> IF RGt(changes[i], RZero) THEN changes[i] ELSE RZero]
Losses(changes) ==
    [i \in 1..Len(changes) |->
        IF RGt(RZero, changes[i]) THEN MathAbs(changes[i]) ELSE RZero]

\* the smoothing loop of calculateRSI from change i on
RECURSIVE RsiLoop(_, _, _, _, _, _, _)
RsiLoop(gains, losses, period, i, avgGain, avgLoss, rsi) ==
    IF i > Len(gains) THEN rsi
    ELSE LET g == RDiv(RAdd(RMul(avgGain, RInt(period - 1)), gains[i]), RInt(period))
             l == RDiv(RAdd(RMul(avgLoss, RInt(period - 1)), losses[i]), RInt(period))
         IN  RsiLoop(gains, losses, period, i + 1, g, l,
                     Append(rsi, IF l = RZero THEN RInt(100) ELSE RsiFormula(g, l)))

\* calculateRSI(data, period)
calculateRSI(data, period) ==
    IF ~data.defined \/ Len(data.items) < period + 1 THEN <<>>
    ELSE LET changes == Changes(data.items)
             gains == Gains(changes)
             losses == Losses(changes)
             avgGain == RDiv(SumOf(SubSeq(gains, 1, period)), RInt(period))
             avgLoss == RDiv(SumOf(SubSeq(losses, 1, period)), RInt(period))
         IN  RsiLoop(gains, losses, period, period + 1, avgGain, avgLoss,
                     <<RsiFormula(avgGain, avgLoss)>>)

\* calculateMACD(data, fastPeriod, slowPeriod, signalPeriod)
calculateMACD(data, fastPeriod, slowPeriod, signalPeriod) ==
    IF ~data.defined \/ Len(data.items) < slowPeriod
    THEN [macd |-> <<>>, signal |-> <<>>, histogram |-> <<>>]
    ELSE LET fastEMA == calculateEMA(data, fastPeriod)
             slowEMA == calculateEMA(data, slowPeriod)
             diff == slowPeriod - fastPeriod
             macd == [i \in 1..Len(slowEMA) |->
                        IF i + diff \in 1..Len(fastEMA)
                        THEN RSub(fastEMA[i + diff], slowEMA[i]) ELSE Undefined]
             signal == IF \E i \in 1..Len(macd) : macd[i] = Undefined
                       THEN [i \in 1..(Len(macd) - signalPeriod + 1) |-> Undefined]
                       ELSE calculateEMA(Arr(macd), signalPeriod)
             histogram == [k \in 1..(Len(macd) - signalPeriod + 1) |->
                              IF macd[k + signalPeriod - 1] = Undefined
                                    \/ signal[k] = Undefined
                              THEN Undefined
                              ELSE RSub(macd[k + signalPeriod - 1], signal[k])]
         IN  [macd |-> macd, signal |-> signal, histogram |-> histogram]

\* sum of Math.pow(val - mean, 2) over the window, divided by period
Variance(window, mean, period) ==
    RDiv(SumOf([i \in 1..Len(window) |->
                    RMul(RSub(window[i], mean), RSub(window[i], mean))]),
         RInt(period))

\* the number mean + mult * Math.sqrt(variance), kept in its three parts
Band(mean, variance, mult) == [mean |-> mean, variance |-> variance, mult |-> mult]

\* calculateBollingerBands(data, period, stdDev)
calculateBollingerBands(data, period, stdDev) ==
    IF ~data.defined \/ Len(data.items) < period
    THEN [upper |-> <<>>, middle |-> <<>>, lower |-> <<>>]
    ELSE LET middle == calculateSMA(data, period)
             Var(k) == Variance(SubSeq(data.items, k, k + period - 1), middle[k], period)
         IN  [upper |-> [k \in 1..Len(middle) |-> Band(middle[k], Var(k), stdDev)],
              middle |-> middle,
              lower |-> [k \in 1..Len(middle) |-> Band(middle[k], Var(k), 0 - stdDev)]]

\* Math.max of three numbers
Max3(a, b, c) ==
    LET ab == IF RLeq(a, b) THEN b ELSE a IN IF RLeq(ab, c) THEN c ELSE ab

\* the true range of a candle and the candle before it
TrueRange(current, previous) ==
    Max3(RSub(current.high, current.low),
         MathAbs(RSub(current.high, previous.close)),
         MathAbs(RSub(current.low, previous.close)))

\* calculateATR(candles, period)
calculateATR(candles, period) ==
    IF ~candles.defined \/ Len(candles.items) < period + 1 THEN <<>>
    ELSE calculateEMA(
            Arr([i \in 1..(Len(candles.items) - 1) |->
                    TrueRange(candles.items[i + 1], candles.items[i])]),
            period)

(***************************************************************************)
(* The indicators applied to bounded series: the initial state holds the   *)
(* arguments, the one step of a behaviour applies a function to them.      *)
(***************************************************************************)
SampleValues == {RInt(v) : v \in 1..5}
SeriesInputs ==
    {NoData} \cup {Arr(items) : items \in UNION {[1..n -> SampleValues] : n \in 0..MaxLen}}
Periods == 1..3

Candles == [high : {RInt(2), RInt(3)}, low : {RInt(1), RInt(2)},
            close : {RInt(1), RInt(2), RInt(3)}]
CandleInputs ==
    {NoData} \cup {Arr(items) : items \in UNION {[1..n -> Candles] : n \in 0..MaxCandles}}

InitSeries ==
    /\ medium = EmptyMedium
    /\ now = 0
    /\ nextId = 1
    /\ last \in [op : {"series"}, data : SeriesInputs, period : Periods, clean : {TRUE}]
    /\ twin = EmptyMedium
    /\ listeners = NoListeners
    /\ defaults = DEFAULTS

InitCandles ==
    /\ medium = EmptyMedium
    /\ now = 0
    /\ nextId = 1
    /\ last \in [op : {"candles"}, data : CandleInputs, period : 1..2, clean : {TRUE}]
    /\ twin = EmptyMedium
    /\ listeners = NoListeners
    /\ defaults = DEFAULTS

InitIndicators == InitSeries \/ InitCandles

ComputeSMA ==
    /\ last.op = "series"
    /\ last' = [op |-> "calculateSMA", data |-> last.data, period |-> last.period,
                ret |-> calculateSMA(last.data, last.period), clean |-> FALSE]
    /\ UNCHANGED <<medium, now, nextId, twin, listeners, defaults>>

ComputeEMA ==
    /\ last.op = "series"
    /\ last' = [op |-> "calculateEMA", data |-> last.data, period |-> last.period,
                ret |-> calculateEMA(last.data, last.period), clean |-> FALSE]
    /\ UNCHANGED <<medium, now, nextId, twin, listeners, defaults>>

ComputeRSI ==
    /\ last.op = "series"
    /\ last' = [op |-> "calculateRSI", data |-> last.data, period |-> last.period,
                ret |-> calculateRSI(last.data, last.period), clean |-> FALSE]
    /\ UNCHANGED <<medium, now, nextId, twin, listeners, defaults>>

ComputeMACD ==
    /\ last.op = "series"
    /\ \E slowPeriod \in {last.period + 1, last.period + 2}, signalPeriod \in 1..2 :
          last' = [op |-> "calculateMACD", data |-> last.data, period |-> last.period,
                   slowPeriod |-> slowPeriod, signalPeriod |-> signalPeriod,
                   ret |-> calculateMACD(last.data, last.period, slowPeriod, signalPeriod),
                   clean |-> FALSE]
    /\ UNCHANGED <<medium, now, nextId, twin, listeners, defaults>>

ComputeBollingerBands ==
    /\ last.op = "series"
    /\ last' = [op |-> "calculateBollingerBands", data |-> last.data,
                period |-> last.period,
                ret |-> calculateBollingerBands(last.data, last.period, 2),
                clean |-> FALSE]
    /\ UNCHANGED <<medium, now, nextId, twin, listeners, defaults>>

ComputeATR ==
    /\ last.op = "candles"
    /\ last' = [op |-> "calculateATR", data |-> last.data, period |-> last.period,
                ret |-> calculateATR(last.data, last.period), clean |-> FALSE]
    /\ UNCHANGED <<medium, now, nextId, twin, listeners, defaults>>

NextSMA == ComputeSMA

SpecSMA == InitSeries /\ [][NextSMA]_vars

NextIndicators ==
    \/ ComputeSMA
    \/ ComputeEMA
    \/ ComputeRSI
    \/ ComputeMACD
    \/ ComputeBollingerBands
    \/ ComputeATR

SpecIndicators == InitIndicators /\ [][NextIndicators]_vars

(***************************************************************************)
(* Properties of the indicators.                                           *)
(***************************************************************************)
\* C25: for a series of length n >= p, calculateSMA returns exactly n-p+1
\* values and the i-th is the arithmetic mean of the samples i..i+p-1;
\* SMA([1,2,3,4,5], 3) = [2,3,4].
C25_SmaIsWindowMean ==
    (last.op = "calculateSMA" /\ last.data.defined
        /\ Len(last.data.items) >= last.period) =>
        LET items == last.data.items
            p == last.period
        IN  /\ Len(last.ret) = Len(items) - p + 1
            /\ \A i \in 1..Len(last.ret) :
                  RMul(last.ret[i], RInt(p)) = SumOf([j \in 1..p |-> items[i + j - 1]])
            /\ (items = <<RInt(1), RInt(2), RInt(3), RInt(4), RInt(5)>> /\ p = 3) =>
                  last.ret = <<RInt(2), RInt(3), RInt(4)>>

\* calculateSMA was applied to [1,2,3,4,5] with period 3
C25_Witness ==
    /\ last.op = "calculateSMA"
    /\ last.data = Arr(<<RInt(1), RInt(2), RInt(3), RInt(4), RInt(5)>>)
    /\ last.period = 3
    /\ last.ret = <<RInt(2), RInt(3), RInt(4)>>

\* C26: for a series of length >= period + 1 every value calculateRSI
\* returns is a number in [0, 100], and the k-th value is 100 whenever the
\* average loss at that point is 0, that is when no change up to that point
\* is a loss, the first value included.
C26_RsiInRange ==
    (last.op = "calculateRSI" /\ last.data.defined
        /\ Len(last.data.items) >= last.period + 1) =>
        LET items == last.data.items IN
        /\ Len(last.ret) = Len(items) - last.period
        /\ \A k \in 1..Len(last.ret) :
              /\ last.ret[k] # Undefined
              /\ RLeq(RZero, last.ret[k]) /\ RLeq(last.ret[k], RInt(100))
              /\ (\A j \in 1..(last.period + k - 1) : RLeq(items[j], items[j + 1])) =>
                    last.ret[k] = RInt(100)

\* every item of a result is a number
AllDefined(values) == \A i \in 1..Len(values) : values[i] # Undefined

\* every band of a result is a number: its mean is, and its variance is a
\* number that has a square root
AllBandsDefined(bands) ==
    \A i \in 1..Len(bands) :
        /\ bands[i].mean # Undefined
        /\ bands[i].variance # Undefined
        /\ RLeq(RZero, bands[i].variance)

\* C27: an indicator given a missing series, or one shorter than it needs
\* (the period for SMA, EMA and Bollinger bands, the slow period for MACD,
\* period + 1 for RSI and ATR), returns an empty result; given enough input
\* every value it returns is a defined number.
C27_EmptyOnInsufficientInput ==
    LET n == Len(last.data.items)
        missing == ~last.data.defined
    IN
    /\ last.op \in {"calculateSMA", "calculateEMA"} =>
          IF missing \/ n < last.period THEN last.ret = <<>>
          ELSE last.ret # <<>> /\ AllDefined(last.ret)
    /\ last.op \in {"calculateRSI", "calculateATR"} =>
          IF missing \/ n < last.period + 1 THEN last.ret = <<>>
          ELSE last.ret # <<>> /\ AllDefined(last.ret)
    /\ last.op = "calculateBollingerBands" =>
          IF missing \/ n < last.period
          THEN last.ret = [upper |-> <<>>, middle |-> <<>>, lower |-> <<>>]
          ELSE /\ last.ret.middle # <<>> /\ AllDefined(last.ret.middle)
               /\ AllBandsDefined(last.ret.upper) /\ AllBandsDefined(last.ret.lower)
    /\ last.op = "calculateMACD" =>
          IF missing \/ n < last.slowPeriod
          THEN last.ret = [macd |-> <<>>, signal |-> <<>>, histogram |-> <<>>]
          ELSE /\ last.ret.macd # <<>> /\ AllDefined(last.ret.macd)
               /\ AllDefined(last.ret.signal) /\ AllDefined(last.ret.histogram)

(***************************************************************************)
(* cryptoUtils.js: calculateFearGreedIndex and                             *)
(* calculateDiversificationScore.                                          *)
(***************************************************************************)
\* Math.min(100, Math.max(0, x))
Clamp(x) == FMin(Num(100), FMax(Zero, x))

\* a destructured field with its default: the default replaces undefined only
WithDefault(field, default) == IF field = Undefined THEN default ELSE field

\* the sentiment chosen for an index; every comparison with NaN is false
SentimentOf(index) ==
    IF FLeq(index, Num(20)) THEN "Extreme Fear"
    ELSE IF FLeq(index, Num(40)) THEN "Fear"
    ELSE IF FLeq(index, Num(60)) THEN "Neutral"
    ELSE IF FLeq(index, Num(80)) THEN "Greed"
    ELSE "Extreme Greed"

\* calculateFearGreedIndex(metrics)
calculateFearGreedIndex(metrics) ==
    LET priceChange24h == WithDefault(metrics.priceChange24h, Zero)
        volumeChange == WithDefault(metrics.volumeChange, Zero)
        marketCapChange == WithDefault(metrics.marketCapChange, Zero)
        volatility == WithDefault(metrics.volatility, Zero)
        socialSentiment == WithDefault(metrics.socialSentiment, Num(50))
        priceScore == Clamp(FAdd(Num(50), FMul(priceChange24h, Num(2))))
        volumeScore == Clamp(FAdd(Num(50), FMul(volumeChange, Lit(3, 2))))
        marketCapScore == Clamp(FAdd(Num(50), FMul(marketCapChange, Num(2))))
        volatilityScore == Clamp(FSub(Num(100), FMul(volatility, Num(10))))
        sentimentScore == socialSentiment
        index == FRound(
                    FAdd(FAdd(FAdd(FAdd(FMul(priceScore, Lit(1, 4)),
                                        FMul(volumeScore, Lit(1, 5))),
                                   FMul(marketCapScore, Lit(1, 5))),
                              FMul(volatilityScore, Lit(3, 20))),
                         FMul(sentimentScore, Lit(1, 5))))
    IN  [index |-> index, sentiment |-> SentimentOf(index),
         components |-> [price |-> priceScore, volume |-> volumeScore,
                         marketCap |-> marketCapScore, volatility |-> volatilityScore,
                         social |-> sentimentScore]]

\* the rating chosen for a score; every comparison with NaN is false
RatingOf(score) ==
    IF FGeq(score, Num(80)) THEN "Excellent"
    ELSE IF FGeq(score, Num(60)) THEN "Good"
    ELSE IF FGeq(score, Num(40)) THEN "Moderate"
    ELSE IF FGeq(score, Num(20)) THEN "Poor"
    ELSE "Very Poor"

\* the Herfindahl-Hirschman index of the first n holdings: the reduce from 0
\* of sum + Math.pow((h.allocation || 0) / 100, 2)
\* Math.pow(x, 2)
Squared(x) == FMul(x, x)

RECURSIVE HhiUpTo(_, _)
HhiUpTo(holdings, n) ==
    IF n = 0 THEN Zero
    ELSE LET allocation == OrDefault(holdings[n].allocation, Zero)
         IN  FAdd(HhiUpTo(holdings, n - 1), Squared(FDiv(allocation, Num(100))))

Hhi(holdings) == HhiUpTo(holdings, Len(holdings))

\* Math.round((1 - (hhi - minHHI) / (maxHHI - minHHI)) * 100); with one
\* holding maxHHI = minHHI and the quotient is 0/0 = NaN when hhi = 1
DiversificationScore(hhi, n) ==
    LET maxHHI == Num(1)
        minHHI == FDiv(Num(1), Num(n))
    IN  FRound(FMul(FSub(Num(1), FDiv(FSub(hhi, minHHI), FSub(maxHHI, minHHI))),
                    Num(100)))

\* calculateDiversificationScore(holdings), holdings an array
calculateDiversificationScore(holdings) ==
    IF holdings = <<>> THEN [score |-> Zero, rating |-> "None"]
    ELSE LET hhi == Hhi(holdings)
             score == DiversificationScore(hhi, Len(holdings))
         IN  [score |-> score, rating |-> RatingOf(score), hhi |-> hhi,
              numberOfAssets |-> Len(holdings)]

(***************************************************************************)
(* The two scores applied to bounded inputs.                               *)
(***************************************************************************)
Metrics ==
    [priceChange24h : {Undefined, NaN, Num(-30), Num(-2), Num(30)},
     volumeChange : {Undefined, Num(-40), Num(-16), Num(-2), Num(40)},
     marketCapChange : {Undefined, Num(-24), Num(-12), Num(18), Num(30)},
     volatility : {Undefined, Num(6), Num(20)},
     socialSentiment : {Undefined, NaN, Num(-50), Num(37), Num(100), Num(500)}]

\* the ways to split a number of parts of 2.5 percent over n holdings of at
\* least `least` parts each, the smallest holding first
RECURSIVE SplitsOf(_, _, _)
SplitsOf(n, parts, least) ==
    IF n = 0 THEN (IF parts = 0 THEN {<<>>} ELSE {})
    ELSE UNION {{<<first>> \o rest : rest \in SplitsOf(n - 1, parts - first, first)} :
                    first \in least..(parts \div n)}

\* the splits of 100 percent, in parts of 2.5, over up to MaxAssets holdings
AllocationSplits == UNION {SplitsOf(n, 40, 0) : n \in 1..MaxAssets}

\* the holdings list of a split: allocations that sum to 100
AllocationsOf(shares) ==
    [i \in 1..Len(shares) |-> [allocation |-> FDiv(Num(5 * shares[i]), Num(2))]]

InitScores ==
    /\ medium = EmptyMedium
    /\ now = 0
    /\ nextId = 1
    /\ \/ last \in [op : {"metrics"}, metrics : Metrics, clean : {TRUE}]
       \/ last \in [op : {"allocations"}, shares : AllocationSplits, clean : {TRUE}]
    /\ twin = EmptyMedium
    /\ listeners = NoListeners
    /\ defaults = DEFAULTS

ComputeFearGreedIndex ==
    /\ last.op = "metrics"
    /\ last' = [op |-> "calculateFearGreedIndex", metrics |-> last.metrics,
                ret |-> calculateFearGreedIndex(last.metrics), clean |-> FALSE]
    /\ UNCHANGED <<medium, now, nextId, twin, listeners, defaults>>

ComputeDiversificationScore ==
    /\ last.op = "allocations"
    /\ last' = [op |-> "calculateDiversificationScore",
                holdings |-> AllocationsOf(last.shares),
                ret |-> calculateDiversificationScore(AllocationsOf(last.shares)),
                clean |-> FALSE]
    /\ UNCHANGED <<medium, now, nextId, twin, listeners, defaults>>

NextScores ==
    \/ ComputeFearGreedIndex
    \/ ComputeDiversificationScore

SpecScores == InitScores /\ [][NextScores]_vars

\* a number in [0, 100]
InPercentRange(x) == FLeq(Zero, x) /\ FLeq(x, Num(100))

\* C28: each of the five sub-scores of calculateFearGreedIndex is in [0,100],
\* so the index is in [0,100] whatever the metrics (socialSentiment
\* included), and the label is Extreme Fear for an index <= 20, Fear for
\* <= 40, Neutral for <= 60, Greed for <= 80 and Extreme Greed above 80.
C28_FearGreedInRange ==
    last.op = "calculateFearGreedIndex" =>
        LET r == last.ret IN
        /\ \A c \in DOMAIN r.components : InPercentRange(r.components[c])
        /\ InPercentRange(r.index)
        /\ r.sentiment =
              (IF FLeq(r.index, Num(20)) THEN "Extreme Fear"
               ELSE IF FLeq(r.index, Num(40)) THEN "Fear"
               ELSE IF FLeq(r.index, Num(60)) THEN "Neutral"
               ELSE IF FLeq(r.index, Num(80)) THEN "Greed"
               ELSE "Extreme Greed")

\* C29: for a non-empty holdings list whose allocations sum to 100 (a single
\* holding included) the score of calculateDiversificationScore is a number
\* in 0..100: 100 when all allocations are equal, 0 when one asset holds
\* everything, and the rating follows the thresholds 80/60/40/20.
C29_DiversificationInRange ==
    last.op = "calculateDiversificationScore" =>
        LET hs == last.holdings
            r == last.ret
        IN  /\ InPercentRange(r.score)
            /\ (\A i, j \in 1..Len(hs) : hs[i].allocation = hs[j].allocation) =>
                    r.score = Num(100)
            /\ (Len(hs) > 1 /\ \E i \in 1..Len(hs) : hs[i].allocation = Num(100)) =>
                    r.score = Zero
            /\ r.rating =
                  (IF FGeq(r.score, Num(80)) THEN "Excellent"
                   ELSE IF FGeq(r.score, Num(60)) THEN "Good"
                   ELSE IF FGeq(r.score, Num(40)) THEN "Moderate"
                   ELSE IF FGeq(r.score, Num(20)) THEN "Poor"
                   ELSE "Very Poor")

\* C30: after any sequence of addTransaction and removeTransaction calls
\* (amounts > 0) every holding getHoldings() returns has amount > 0 and no
\* two holdings have the same coinId.
C30_HoldingsPositiveAndUnique ==
    /\ \A i \in 1..Len(Holdings) : FGt(Holdings[i].amount, Zero)
    /\ \A i, j \in 1..Len(Holdings) :
          Holdings[i].coinId = Holdings[j].coinId => i = j

\* recalculateHoldings rebuilt, from buys of 0.1 and 0.2 and a sell of 0.3, a
\* holding of the amount that the rounding of 0.1 + 0.2 - 0.3 leaves
C30_Witness ==
    /\ last.op = "recalculateHoldings"
    /\ Len(Log) = 3
    /\ \A i \in 1..3 : Log[i].coinId = "btc" /\ Log[i].amount = Lit(i, 10)
    /\ Log[1].type = "buy" /\ Log[2].type = "buy" /\ Log[3].type = "sell"
    /\ Len(Holdings) = 1
    /\ FGt(Holdings[1].amount, Zero) /\ FGt(Lit(1, 1000000), Holdings[1].amount)
    /\ Holdings[1].averagePrice = Zero

(***************************************************************************)
(* The transaction log across one call of the ledger.                      *)
(***************************************************************************)
\* C31: addTransaction adds exactly one entry at the end of the log and leaves
\* the earlier entries unchanged and in order; removeTransaction(id) removes
\* exactly the entries with that id and leaves the others unchanged and in
\* order; recalculateHoldings and updateHoldings do not change the log
\* (clear and import may).
C31_LogAppendOnly ==
    [][LET pre == getTransactions(medium, now)
           post == getTransactions(medium', now')
           Kept(i) == pre[i].id # last'.id
       IN  /\ last'.op = "addTransaction" =>
                /\ Len(post) = Len(pre) + 1
                /\ SubSeq(post, 1, Len(pre)) = pre
                /\ post[Len(post)] = [id |-> last'.id, coinId |-> last'.tx.coinId,
                                      type |-> last'.tx.type, price |-> last'.tx.price,
                                      amount |-> last'.tx.amount]
           /\ last'.op = "removeTransaction" =>
                /\ Len(post) = Cardinality({i \in 1..Len(pre) : Kept(i)})
                /\ \A j \in 1..Len(post) :
                      \E i \in 1..Len(pre) :
                          /\ Kept(i) /\ post[j] = pre[i]
                          /\ j = Cardinality({k \in 1..i : Kept(k)})
           /\ last'.op \in {"recalculateHoldings", "updateHoldings"} =>
                post = pre]_vars

\* three transactions were added and the second one has been removed from
\* the middle of the log
C31_Witness ==
    /\ last.op = "removeTransaction" /\ last.id = 2
    /\ nextId = 4
    /\ Len(Log) = 2
    /\ Log[1].id = 1 /\ Log[2].id = 3

(***************************************************************************)
(* The store with a record of the writes that went through the retry:      *)
(* last.retried maps a key to the set call (value, ttl, time) whose retry   *)
(* wrote the record now stored under it; the entry is dropped when the key *)
(* is overwritten, removed or cleared.                                     *)
(***************************************************************************)
NoRetried == [k \in {} |-> [value |-> "v1", ttl |-> Null, t |-> 0]]

Written(retried, key, call) ==
    [k \in (DOMAIN retried) \cup {key} |-> IF k = key THEN call ELSE retried[k]]

Forgotten(retried, key) == [k \in (DOMAIN retried) \ {key} |-> retried[k]]

InitRetry ==
    /\ medium \in PriorMedia
    /\ now = 0
    /\ nextId = 1
    /\ last = [op |-> "none", retried |-> NoRetried]
    /\ twin = EmptyMedium
    /\ listeners = NoListeners
    /\ defaults = DEFAULTS

RetryTick ==
    /\ now < MaxTime
    /\ now' = now + 1
    /\ last' = [op |-> "tick", retried |-> last.retried]
    /\ UNCHANGED <<medium, nextId, twin, listeners, defaults>>

RetrySet ==
    \E key \in StoreKeys, value \in StoreValues, ttl \in TTLs, outcome \in WriteOutcomes :
        /\ medium' = SetMedium(medium, key, value, ttl, now, outcome)
        /\ last' = [op |-> "set", key |-> key, ret |-> SetReturns(outcome),
                    retried |->
                        CASE outcome = "retry_ok" ->
                                Written(last.retried, key,
                                        [value |-> value, ttl |-> ttl, t |-> now])
                          [] outcome = "ok" -> Forgotten(last.retried, key)
                          [] OTHER -> last.retried]
        /\ UNCHANGED <<now, nextId, twin, listeners, defaults>>

RetryGet ==
    \E key \in StoreKeys :
        /\ medium' = GetMedium(medium, key, now)
        /\ last' = [op |-> "get", key |-> key,
                    ret |-> GetValue(medium, key, DefaultValue, now),
                    retried |-> last.retried]
        /\ UNCHANGED <<now, nextId, twin, listeners, defaults>>

RetryRemove ==
    \E key \in StoreKeys :
        /\ medium' = RemoveMedium(medium, key)
        /\ last' = [op |-> "remove", key |-> key, ret |-> TRUE,
                    retried |-> Forgotten(last.retried, key)]
        /\ UNCHANGED <<now, nextId, twin, listeners, defaults>>

RetryClear ==
    /\ medium' = clear(medium)
    /\ last' = [op |-> "clear", ret |-> TRUE, retried |-> NoRetried]
    /\ UNCHANGED <<now, nextId, twin, listeners, defaults>>

NextRetry ==
    \/ RetryTick
    \/ RetrySet
    \/ RetryGet
    \/ RetryRemove
    \/ RetryClear

SpecRetry == InitRetry /\ [][NextRetry]_vars

\* C32: a record written by the retry of set carries no expiry: from the set
\* that succeeded through the retry until the key is overwritten, removed or
\* cleared, get(key) returns the value written, now and at every later time,
\* also after the ttl given to that set has elapsed.
C32_RetryRecordNeverExpires ==
    \A k \in DOMAIN last.retried :
        /\ getFullKey(k) \in DOMAIN medium
        /\ \A t \in now..(MaxTime + 1) :
              GetValue(medium, k, DefaultValue, t) = last.retried[k].value

\* a get returned the value of a retry-written record after the ttl that was
\* passed to its set had elapsed
C32_Witness ==
    /\ last.op = "get"
    /\ last.key \in DOMAIN last.retried
    /\ last.retried[last.key].ttl = 2
    /\ now > last.retried[last.key].t + 2
    /\ last.ret = last.retried[last.key].value

(***************************************************************************)
(* set and remove step by step: the write on the medium, then one step per *)
(* listener that notifyListeners calls, then the return.  A listener reads *)
(* the key it is notified about with get(key, DefaultValue).  last.pc is    *)
(* "notify" while the call is inside notifyListeners and "idle" otherwise. *)
(***************************************************************************)
\* the listeners notifyListeners is about to call for a key, in order
Pending(ls, key) == IF key \in DOMAIN ls THEN ls[key] ELSE <<>>

\* the medium at the time set calls notifyListeners (line 108)
NotifyMedium_BeforeWrite(m, key, value, ttl, t) == m

NotifyMedium(m, key, value, ttl, t) == SetMedium(m, key, value, ttl, t, "ok")

NotifyTtls == {Null, 2}

InitNotify ==
    /\ medium = EmptyMedium
    /\ now = 0
    /\ nextId = 1
    /\ last = [op |-> "none", pc |-> "idle"]
    /\ twin = EmptyMedium
    /\ listeners = NoListeners
    /\ defaults = DEFAULTS

NotifySubscribe ==
    \E key \in StoreKeys, callback \in Callbacks :
        /\ last.pc = "idle"
        /\ listeners' = subscribe(listeners, key, callback)
        /\ last' = [op |-> "subscribe", key |-> key, pc |-> "idle"]
        /\ UNCHANGED <<medium, now, nextId, twin, defaults>>

BeginSet ==
    \E key \in StoreKeys, value \in StoreValues, ttl \in NotifyTtls,
       outcome \in WriteOutcomes :
        /\ last.pc = "idle"
        /\ medium' = IF outcome = "ok"
                     THEN NotifyMedium(medium, key, value, ttl, now)
                     ELSE SetMedium(medium, key, value, ttl, now, outcome)
        /\ last' = [op |-> "set", key |-> key, value |-> value, outcome |-> outcome,
                    pc |-> IF outcome = "ok" THEN "notify" ELSE "idle",
                    pending |-> IF outcome = "ok" THEN Pending(listeners, key) ELSE <<>>,
                    calls |-> <<>>]
        /\ UNCHANGED <<now, nextId, twin, listeners, defaults>>

BeginRemove ==
    \E key \in StoreKeys :
        /\ last.pc = "idle"
        /\ medium' = RemoveMedium(medium, key)
        /\ last' = [op |-> "remove", key |-> key, value |-> NullValue, outcome |-> "ok",
                    pc |-> "notify", pending |-> Pending(listeners, key),
                    calls |-> <<>>]
        /\ UNCHANGED <<now, nextId, twin, listeners, defaults>>

\* callback(value, key) of the next listener; its body is get(key)
Invoke ==
    /\ last.pc = "notify"
    /\ last.pending # <<>>
    /\ medium' = GetMedium(medium, last.key, now)
    /\ last' = [last EXCEPT
                    !.pending = Tail(@),
                    !.calls = Append(@, [callback |-> Head(last.pending),
                                         value |-> last.value, key |-> last.key,
                                         seen |-> GetValue(medium, last.key,
                                                           DefaultValue, now),
                                         pc |-> last.pc])]
    /\ UNCHANGED <<now, nextId, twin, listeners, defaults>>

\* return true after notifyListeners
Return ==
    /\ last.pc = "notify"
    /\ last.pending = <<>>
    /\ last' = [last EXCEPT !.pc = "idle"]
    /\ UNCHANGED <<medium, now, nextId, twin, listeners, defaults>>

NextNotify ==
    \/ NotifySubscribe
    \/ BeginSet
    \/ BeginRemove
    \/ Invoke
    \/ Return

SpecNotify == InitNotify /\ [][NextNotify]_vars

\* C33: a listener invoked for set(key, v) reads v with get(key), a listener
\* invoked for remove(key) finds the record absent, every invocation happens
\* before the set / remove has returned, only listeners subscribed to the
\* key of the call are invoked, and when a first-attempt set or a remove has
\* returned all of them have been invoked.
C33_WriteThenNotify ==
    last.op \in {"set", "remove"} =>
        /\ \A i \in 1..Len(last.calls) :
              /\ last.calls[i].seen =
                    (IF last.op = "set" THEN last.value ELSE DefaultValue)
              /\ last.calls[i].pc = "notify"
              /\ last.calls[i].key = last.key
              /\ last.calls[i].callback = Pending(listeners, last.key)[i]
        /\ Len(last.calls) <= Len(Pending(listeners, last.key))
        /\ (last.pc = "idle" /\ last.outcome = "ok") =>
              Len(last.calls) = Len(Pending(listeners, last.key))

\* a set that replaced a stored value has returned after its two listeners
\* read the new value, while another listener is subscribed to the other key
\* only
C33_Witness ==
    /\ last.op = "set" /\ last.pc = "idle" /\ last.outcome = "ok"
    /\ Len(last.calls) = 2
    /\ \A i \in 1..2 : last.calls[i].seen = last.value
    /\ \E k \in StoreKeys :
            /\ k # last.key
            /\ \E j \in 1..Len(Pending(listeners, k)) :
                  \A i \in 1..2 : last.calls[i].callback # Pending(listeners, k)[j]

(***************************************************************************)
(* The sweep of the store.                                                 *)
(***************************************************************************)
\* the record cannot be parsed, or it is past its expiry at time t
PastExpiryOrUnparsable(item, t) ==
    \/ ~item.parsable
    \/ item.expires # Null /\ t > item.expires

\* C34: clearExpired() removes exactly the namespace records that are past
\* expiry or unparsable, returns the number of records it removed, leaves
\* the unexpired namespace records and the records outside the namespace
\* unchanged, and leaves no expired record of the namespace in the medium.
C34_ClearExpiredSweep ==
    last.op = "clearExpired" =>
        LET removed == (DOMAIN last.pre) \ (DOMAIN medium)
        IN  /\ DOMAIN medium \subseteq DOMAIN last.pre
            /\ removed = {fk \in DOMAIN last.pre :
                              /\ startsWithPrefix(fk)
                              /\ PastExpiryOrUnparsable(last.pre[fk], last.t)}
            /\ last.ret = Cardinality(removed)
            /\ \A fk \in DOMAIN medium : medium[fk] = last.pre[fk]
            /\ \A fk \in DOMAIN medium :
                  startsWithPrefix(fk) => ~PastExpiryOrUnparsable(medium[fk], last.t)

\* a sweep removed an expired record and returned 1 while it kept an
\* unexpired record of the namespace and an unparsable item outside it
C34_Witness ==
    /\ last.op = "clearExpired" /\ last.ret = 1
    /\ \E fk \in DOMAIN last.pre :
            /\ startsWithPrefix(fk) /\ last.pre[fk].parsable
            /\ last.pre[fk].expires # Null /\ last.t > last.pre[fk].expires
            /\ fk \notin DOMAIN medium
    /\ \E fk \in DOMAIN medium : startsWithPrefix(fk) /\ medium[fk].parsable
    /\ ForeignKey \in DOMAIN medium /\ ~medium[ForeignKey].parsable

(***************************************************************************)
(* Unsubscribe handles.  Every subscribe call returns a new closure over   *)
(* its key and callback; last.handles lists the closures returned so far,  *)
(* each with whether it has been called.                                   *)
(***************************************************************************)
MaxHandles == 3     \* subscribe calls in one behaviour

HandleCallbacks == {"onA", "onB"}

NoHandles == <<>>

\* the closure subscribe returns: listeners.get(key)?.delete(callback)
unsubscribe(ls, key, callback) ==
    LET Other(cb) == cb # callback
    IN  IF key \in DOMAIN ls
        THEN [ls EXCEPT ![key] = SelectSeq(@, Other)]
        ELSE ls

InitHandles ==
    /\ medium = EmptyMedium
    /\ now = 0
    /\ nextId = 1
    /\ last = [op |-> "none", handles |-> NoHandles]
    /\ twin = EmptyMedium
    /\ listeners = NoListeners
    /\ defaults = DEFAULTS

HandleSubscribe ==
    \E key \in StoreKeys, callback \in HandleCallbacks :
        /\ Len(last.handles) < MaxHandles
        /\ listeners' = subscribe(listeners, key, callback)
        /\ last' = [op |-> "subscribe", key |-> key, callback |-> callback,
                    handles |-> Append(last.handles,
                                       [key |-> key, callback |-> callback,
                                        called |-> FALSE])]
        /\ UNCHANGED <<medium, now, nextId, twin, defaults>>

HandleUnsubscribe ==
    \E h \in 1..Len(last.handles) :
        /\ listeners' = unsubscribe(listeners, last.handles[h].key,
                                    last.handles[h].callback)
        /\ last' = [op |-> "unsubscribe", key |-> last.handles[h].key,
                    callback |-> last.handles[h].callback,
                    again |-> last.handles[h].called, pre |-> listeners,
                    handles |-> [last.handles EXCEPT ![h].called = TRUE]]
        /\ UNCHANGED <<medium, now, nextId, twin, defaults>>

HandleSet ==
    \E key \in StoreKeys :
        /\ medium' = SetMedium(medium, key, "v1", Null, now, "ok")
        /\ last' = [op |-> "set", key |-> key,
                    calls |-> SetCalls(listeners, key, "v1", "ok"),
                    handles |-> last.handles]
        /\ UNCHANGED <<now, nextId, twin, listeners, defaults>>

HandleRemove ==
    \E key \in StoreKeys :
        /\ medium' = RemoveMedium(medium, key)
        /\ last' = [op |-> "remove", key |-> key,
                    calls |-> RemoveCalls(listeners, key),
                    handles |-> last.handles]
        /\ UNCHANGED <<now, nextId, twin, listeners, defaults>>

NextHandles ==
    \/ HandleSubscribe
    \/ HandleUnsubscribe
    \/ HandleSet
    \/ HandleRemove

SpecHandles == InitHandles /\ [][NextHandles]_vars

\* the callbacks a set / remove of the key would invoke
Invoked(ls, key) == {Pending(ls, key)[i] : i \in 1..Len(Pending(ls, key))}

\* C35: after an unsubscribe handle has been called its listener is not
\* invoked by a set or remove of the key, the other listeners of the key and
\* the listeners of the other keys are invoked as before, and a call of a
\* handle that had been called before changes nothing.
C35_UnsubscribeHandle ==
    /\ last.op = "unsubscribe" =>
          /\ last.callback \notin Invoked(listeners, last.key)
          /\ \A k \in StoreKeys :
                Invoked(listeners, k) \ {last.callback} =
                    Invoked(last.pre, k) \ {last.callback}
          /\ \A k \in StoreKeys \ {last.key} : Pending(listeners, k) = Pending(last.pre, k)
          /\ last.again => listeners = last.pre
    /\ last.op \in {"set", "remove"} =>
          {last.calls[i].callback : i \in 1..Len(last.calls)} =
              Invoked(listeners, last.key)

(***************************************************************************)
(* CacheManager invalidation next to the records the other managers keep.  *)
(* A logical name is matched as a string: Chars gives its characters.  A   *)
(* pattern is the RegExp source, given as [anchored, text]: ^text when     *)
(* anchored, text otherwise; the empty text matches every name.            *)
(***************************************************************************)
WATCHLIST == "watchlist"

DirectNames == {PORTFOLIO, WATCHLIST}

Chars(name) ==
    CASE name = "cache_prices" -> <<"c", "a", "c", "h", "e", "_", "p", "r", "i", "c", "e", "s">>
      [] name = "cache_coins" -> <<"c", "a", "c", "h", "e", "_", "c", "o", "i", "n", "s">>
      [] name = "portfolio" -> <<"p", "o", "r", "t", "f", "o", "l", "i", "o">>
      [] name = "watchlist" -> <<"w", "a", "t", "c", "h", "l", "i", "s", "t">>
      [] OTHER -> <<>>

CachePrefix == <<"c", "a", "c", "h", "e", "_">>

\* k.startsWith('cache_')
startsWithCache(name) ==
    /\ Len(Chars(name)) >= Len(CachePrefix)
    /\ SubSeq(Chars(name), 1, Len(CachePrefix)) = CachePrefix

\* new RegExp(pattern).test(key)
RegExpTest(pattern, name) ==
    LET text == pattern.text
        At(i) == /\ i + Len(text) - 1 <= Len(Chars(name))
                 /\ SubSeq(Chars(name), i, i + Len(text) - 1) = text
    IN  IF pattern.anchored THEN At(1)
        ELSE \E i \in 1..(Len(Chars(name)) + 1) : At(i)

\* invalidate(key): storage.remove(`cache_${key}`)
invalidate(m, key) == RemoveMedium(m, CacheKey(key))

\* invalidatePattern(pattern): storage.remove of every key the pattern matches
invalidatePattern(m, pattern) ==
    LET hit == {name \in keys(m) : RegExpTest(pattern, name)}
    IN  [fk \in {k \in DOMAIN m : ~(startsWithPrefix(k) /\ k[2] \in hit)} |-> m[fk]]

\* clearAll(): storage.remove of every key that starts with cache_
clearAll(m) ==
    LET hit == {name \in keys(m) : startsWithCache(name)}
    IN  [fk \in {k \in DOMAIN m : ~(startsWithPrefix(k) /\ k[2] \in hit)} |-> m[fk]]

Patterns ==
    {[anchored |-> TRUE, text |-> CachePrefix],
     [anchored |-> FALSE, text |-> <<"p", "r", "i", "c", "e", "s">>],
     [anchored |-> FALSE, text |-> <<"o">>],
     [anchored |-> FALSE, text |-> <<>>]}

\* a manager stores its record: storage.set(this.key, value)
DirectSet ==
    \E name \in DirectNames, value \in StoreValues :
        /\ medium' = SetMedium(medium, name, value, Null, now, "ok")
        /\ last' = [op |-> "set", key |-> name, pre |-> medium]
        /\ UNCHANGED <<now, nextId, twin, listeners, defaults>>

CachePut ==
    \E key \in CacheNames, data \in CacheData :
        /\ medium' = CacheSetMedium(medium, key, data, DEFAULT_TTL, now, "ok")
        /\ last' = [op |-> "cacheSet", key |-> key, pre |-> medium]
        /\ UNCHANGED <<now, nextId, twin, listeners, defaults>>

Invalidate ==
    \E key \in CacheNames :
        /\ medium' = invalidate(medium, key)
        /\ last' = [op |-> "invalidate", key |-> key, pre |-> medium]
        /\ UNCHANGED <<now, nextId, twin, listeners, defaults>>

InvalidatePattern ==
    \E pattern \in Patterns :
        /\ medium' = invalidatePattern(medium, pattern)
        /\ last' = [op |-> "invalidatePattern", pattern |-> pattern, pre |-> medium]
        /\ UNCHANGED <<now, nextId, twin, listeners, defaults>>

ClearAll ==
    /\ medium' = clearAll(medium)
    /\ last' = [op |-> "clearAll", pre |-> medium]
    /\ UNCHANGED <<now, nextId, twin, listeners, defaults>>

NextInvalidate ==
    \/ DirectSet
    \/ CachePut
    \/ Invalidate
    \/ InvalidatePattern
    \/ ClearAll

SpecInvalidate == Init /\ [][NextInvalidate]_vars

\* C36: invalidate, invalidatePattern (for any pattern) and clearAll remove
\* only records whose logical name starts with cache_: every record of
\* another name that was stored before the call is stored unchanged after it.
C36_InvalidationTouchesOnlyCache ==
    last.op \in {"invalidate", "invalidatePattern", "clearAll"} =>
        \A fk \in DOMAIN last.pre :
            ~(startsWithPrefix(fk) /\ startsWithCache(fk[2])) =>
                fk \in DOMAIN medium /\ medium[fk] = last.pre[fk]

\* C37: addTransaction of a sell for a coin that has no holding appends the
\* sell to the transaction log and leaves the holdings unchanged: no holding
\* is created and no other holding is modified.
C37_SellWithoutHolding ==
    (/\ last.op = "addTransaction" /\ last.tx.type = "sell"
     /\ HoldingsOf(last.preHoldings, last.tx.coinId) = {}) =>
        /\ Log = Append(last.preLog,
                        [id |-> last.id, coinId |-> last.tx.coinId,
                         type |-> last.tx.type, price |-> last.tx.price,
                         amount |-> last.tx.amount])
        /\ Holdings = last.preHoldings

\* a sell of a coin that is not held was added while the other coin is held
C37_Witness ==
    /\ last.op = "addTransaction" /\ last.tx.type = "sell"
    /\ HoldingsOf(last.preHoldings, last.tx.coinId) = {}
    /\ Len(last.preHoldings) = 1
    /\ Len(Log) = Len(last.preLog) + 1
    /\ Log[Len(Log)].type = "sell"

(***************************************************************************)
(* The calls on the preferences singleton; storage.clear() empties the     *)
(* store again.                                                            *)
(***************************************************************************)
PreferenceKeys ==
    {"theme", "currency", "notifications.priceAlerts", "notifications.newsAlerts"}

PreferenceValues(key) ==
    CASE key = "theme" -> {"dark", "light"}
      [] key = "currency" -> {"USD", "EUR"}
      [] OTHER -> BOOLEAN

PreferencesSet ==
    \E key \in PreferenceKeys :
        \E value \in PreferenceValues(key) :
            /\ medium' = PreferencesSetMedium(defaults, medium, key, value, now, "ok")
            /\ defaults' = PreferencesSetDefaults(defaults, medium, key, value, now)
            /\ last' = [op |-> "set", key |-> key, value |-> value, ret |-> TRUE]
            /\ UNCHANGED <<now, nextId, twin, listeners>>

\* the objects handed to setMany
ManyPreferences ==
    {[theme |-> "light", currency |-> "EUR"],
     [notifications |-> [priceAlerts |-> FALSE]],
     [theme |-> "light", notifications |-> [newsAlerts |-> TRUE]]}

PreferencesSetMany ==
    \E preferences \in ManyPreferences :
        /\ medium' = setMany(defaults, medium, preferences, now, "ok")
        /\ last' = [op |-> "setMany", preferences |-> preferences, ret |-> TRUE]
        /\ UNCHANGED <<now, nextId, twin, listeners, defaults>>

PreferencesReset ==
    /\ medium' = reset(defaults, medium, now, "ok")
    /\ last' = [op |-> "reset", ret |-> TRUE]
    /\ UNCHANGED <<now, nextId, twin, listeners, defaults>>

PreferencesClear ==
    /\ medium' = clear(medium)
    /\ last' = [op |-> "clear", ret |-> TRUE]
    /\ UNCHANGED <<now, nextId, twin, listeners, defaults>>

NextPreferences ==
    \/ PreferencesSet
    \/ PreferencesSetMany
    \/ PreferencesReset
    \/ PreferencesClear

SpecPreferences == Init /\ [][NextPreferences]_vars

\* C38: after any sequence of set(key, value) calls, dotted keys on a store
\* without preferences included, followed by reset(), getAll() equals the
\* default preferences the manager was constructed with.
C38_ResetRestoresDefaults ==
    last.op = "reset" => PreferencesGetAll(defaults, medium, now) = DEFAULTS

(***************************************************************************)
(* WatchlistManager: an array of {id, addedAt} under the watchlist key.    *)
(***************************************************************************)
MaxOrder == 3       \* longest list of ids given to reorder

\* get(): this.storage.get(this.key, [])
WatchlistGet(m, t) == GetValue(m, WATCHLIST, <<>>, t)

\* has(coinId): this.get().some(item => item.id === coinId)
has(m, coinId, t) ==
    \E i \in 1..Len(WatchlistGet(m, t)) : WatchlistGet(m, t)[i].id = coinId

\* add(coin): the medium afterwards, and the value returned
WatchlistAddMedium(m, coin, t, outcome) ==
    IF has(m, coin, t) THEN GetMedium(m, WATCHLIST, t)
    ELSE SetMedium(GetMedium(m, WATCHLIST, t), WATCHLIST,
                   Append(WatchlistGet(m, t), [id |-> coin, addedAt |-> t]),
                   Null, t, outcome)

WatchlistAddReturns(m, coin, t, outcome) ==
    IF has(m, coin, t) THEN FALSE ELSE SetReturns(outcome)

\* remove(coinId): the medium afterwards
WatchlistRemoveMedium(m, coinId, t, outcome) ==
    LET Other(item) == item.id # coinId
    IN  SetMedium(GetMedium(m, WATCHLIST, t), WATCHLIST,
                  SelectSeq(WatchlistGet(m, t), Other), Null, t, outcome)

\* toggle(coin): the medium afterwards, and the value returned
WatchlistToggleMedium(m, coin, t, outcome) ==
    IF has(m, coin, t) THEN WatchlistRemoveMedium(m, coin, t, outcome)
    ELSE WatchlistAddMedium(m, coin, t, outcome)

WatchlistToggleReturns(m, coin, t) == ~has(m, coin, t)

\* newOrder.map(id => watchlist.find(item => item.id === id)).filter(Boolean)
RECURSIVE Reordered(_, _)
Reordered(watchlist, newOrder) ==
    IF newOrder = <<>> THEN <<>>
    ELSE LET i == IndexOfId(watchlist, Head(newOrder))
         IN  (IF i > 0 THEN <<watchlist[i]>> ELSE <<>>)
                \o Reordered(watchlist, Tail(newOrder))

\* reorder(newOrder): the medium afterwards
WatchlistReorderMedium(m, newOrder, t, outcome) ==
    SetMedium(GetMedium(m, WATCHLIST, t), WATCHLIST,
              Reordered(WatchlistGet(m, t), newOrder), Null, t, outcome)

\* clear(): this.storage.set(this.key, [])
WatchlistClearMedium(m, t, outcome) == SetMedium(m, WATCHLIST, <<>>, Null, t, outcome)

WatchCoins == {"btc", "eth", "ada"}
Orders == UNION {[1..n -> WatchCoins] : n \in 0..MaxOrder}

WatchlistAdd ==
    \E coin \in WatchCoins :
        /\ medium' = WatchlistAddMedium(medium, coin, now, "ok")
        /\ last' = [op |-> "add", id |-> coin, pre |-> WatchlistGet(medium, now),
                    ret |-> WatchlistAddReturns(medium, coin, now, "ok")]
        /\ UNCHANGED <<now, nextId, twin, listeners, defaults>>

WatchlistRemove ==
    \E coin \in WatchCoins :
        /\ medium' = WatchlistRemoveMedium(medium, coin, now, "ok")
        /\ last' = [op |-> "remove", id |-> coin, pre |-> WatchlistGet(medium, now),
                    ret |-> TRUE]
        /\ UNCHANGED <<now, nextId, twin, listeners, defaults>>

WatchlistToggle ==
    \E coin \in WatchCoins :
        /\ medium' = WatchlistToggleMedium(medium, coin, now, "ok")
        /\ last' = [op |-> "toggle", id |-> coin, pre |-> WatchlistGet(medium, now),
                    ret |-> WatchlistToggleReturns(medium, coin, now)]
        /\ UNCHANGED <<now, nextId, twin, listeners, defaults>>

WatchlistReorder ==
    \E newOrder \in Orders :
        /\ medium' = WatchlistReorderMedium(medium, newOrder, now, "ok")
        /\ last' = [op |-> "reorder", newOrder |-> newOrder,
                    pre |-> WatchlistGet(medium, now), ret |-> TRUE]
        /\ UNCHANGED <<now, nextId, twin, listeners, defaults>>

WatchlistClear ==
    /\ medium' = WatchlistClearMedium(medium, now, "ok")
    /\ last' = [op |-> "clear", pre |-> WatchlistGet(medium, now), ret |-> TRUE]
    /\ UNCHANGED <<now, nextId, twin, listeners, defaults>>

NextWatchlist ==
    \/ WatchlistAdd
    \/ WatchlistRemove
    \/ WatchlistToggle
    \/ WatchlistReorder
    \/ WatchlistClear

SpecWatchlist == Init /\ [][NextWatchlist]_vars

\* the ids of a list are pairwise distinct
DistinctIds(list) ==
    \A i, j \in 1..Len(list) : i # j => list[i].id # list[j].id

\* C39: after any sequence of add, remove, toggle, reorder (with any list of
\* ids, repeated ids included) and clear, the ids of the watchlist are
\* pairwise distinct; add of an id that is present returns false and leaves
\* the list unchanged.
C39_WatchlistIdsDistinct ==
    /\ DistinctIds(WatchlistGet(medium, now))
    /\ (last.op = "add" /\ \E i \in 1..Len(last.pre) : last.pre[i].id = last.id) =>
          /\ last.ret = FALSE
          /\ WatchlistGet(medium, now) = last.pre

(***************************************************************************)
(* RecentSearchesManager: an array of {id, searchedAt}, newest first, of a *)
(* manager constructed with maxItems.                                      *)
(***************************************************************************)
RECENT_SEARCHES == "recent_searches"

maxItems == 3       \* the maxItems the manager is constructed with

\* get(): this.storage.get(this.key, [])
RecentGet(m, t) == GetValue(m, RECENT_SEARCHES, <<>>, t)

\* searches.filter(s => s.id !== itemId)
WithoutId(searches, itemId) ==
    LET Other(item) == item.id # itemId
    IN  SelectSeq(searches, Other)

\* add(item): the array it stores
Added_WithoutTrim(searches, itemId, t) ==
    <<[id |-> itemId, searchedAt |-> t]>> \o WithoutId(searches, itemId)

Added(searches, itemId, t) ==
    LET unshifted == <<[id |-> itemId, searchedAt |-> t]>> \o WithoutId(searches, itemId)
    IN  IF Len(unshifted) > maxItems THEN SubSeq(unshifted, 1, maxItems)
        ELSE unshifted

\* add(item): the medium afterwards
RecentAddMedium(m, itemId, t, outcome) ==
    SetMedium(GetMedium(m, RECENT_SEARCHES, t), RECENT_SEARCHES,
              Added(RecentGet(m, t), itemId, t), Null, t, outcome)

\* remove(itemId): the medium afterwards
RecentRemoveMedium(m, itemId, t, outcome) ==
    SetMedium(GetMedium(m, RECENT_SEARCHES, t), RECENT_SEARCHES,
              WithoutId(RecentGet(m, t), itemId), Null, t, outcome)

SearchIds == 1..(maxItems + 1)

RecentAdd ==
    \E itemId \in SearchIds :
        /\ medium' = RecentAddMedium(medium, itemId, now, "ok")
        /\ last' = [op |-> "add", id |-> itemId, pre |-> RecentGet(medium, now),
                    ret |-> TRUE]
        /\ UNCHANGED <<now, nextId, twin, listeners, defaults>>

RecentRemove ==
    \E itemId \in SearchIds :
        /\ medium' = RecentRemoveMedium(medium, itemId, now, "ok")
        /\ last' = [op |-> "remove", id |-> itemId, pre |-> RecentGet(medium, now),
                    ret |-> TRUE]
        /\ UNCHANGED <<now, nextId, twin, listeners, defaults>>

\* clear(): this.storage.set(this.key, [])
RecentClear ==
    /\ medium' = SetMedium(medium, RECENT_SEARCHES, <<>>, Null, now, "ok")
    /\ last' = [op |-> "clear", pre |-> RecentGet(medium, now), ret |-> TRUE]
    /\ UNCHANGED <<now, nextId, twin, listeners, defaults>>

NextRecent ==
    \/ RecentAdd
    \/ RecentRemove
    \/ RecentClear

SpecRecent == Init /\ [][NextRecent]_vars

\* list holds the entries of older, in their order, up to its own length
KeepsOrderOf(list, older) ==
    /\ Len(list) <= Len(older)
    /\ \A i \in 1..Len(list) : list[i] = older[i]

\* C40: after any sequence of add and remove calls the list has at most
\* maxItems entries and pairwise distinct ids; after an add the item added is
\* first and the earlier entries follow in their order, the oldest one
\* dropped when the list would exceed maxItems; a remove only takes the
\* entry out.
C40_RecentSearchesBounded ==
    LET list == RecentGet(medium, now)
    IN  /\ Len(list) <= maxItems
        /\ DistinctIds(list)
        /\ last.op = "add" =>
              LET older == WithoutId(last.pre, last.id)
              IN  /\ list # <<>> /\ list[1].id = last.id
                  /\ KeepsOrderOf(Tail(list), older)
                  /\ Len(list) = (IF Len(older) + 1 > maxItems
                                  THEN maxItems ELSE Len(older) + 1)
        /\ last.op = "remove" => list = WithoutId(last.pre, last.id)

\* an add of a new id to a full list dropped the oldest entry
C40_Witness ==
    /\ last.op = "add"
    /\ Len(last.pre) = maxItems
    /\ \A i \in 1..Len(last.pre) : last.pre[i].id # last.id
    /\ Len(RecentGet(medium, now)) = maxItems
    /\ RecentGet(medium, now)[1].id = last.id
    /\ \A i \in 1..maxItems :
          RecentGet(medium, now)[i].id # last.pre[maxItems].id

====
